---- MODULE Spec2Model ----
(***************************************************************************)
(* Bobi: session state machine, LLM session lifecycle and capture tool     *)
(* call of the two orchestrators of the repository:                        *)
(*   - the server build: StateMachine + server/src/orchestrator            *)
(*   - the local build:  BobiStore   + local/src/core/orchestrator         *)
(* One variable, build, selects which of the two runs; the fields both     *)
(* builds keep under the same names (state, awakeStartTime, ..., llm,      *)
(* awakeTimer, dialogTimer) are held in the same variables.                *)
(*                                                                         *)
(* Time is Date.now() in milliseconds.  A timer is the time at which its   *)
(* callback is due; time never advances past a pending timer (Tick), so a  *)
(* callback runs at the instant it is due, after any other event of that   *)
(* instant.  Each method of the source is an operator from the program     *)
(* state (a record s with one field per variable) to the program state, so *)
(* that a handler is the composition of the calls it makes.                *)
(***************************************************************************)
EXTENDS Integers, Sequences, FiniteSets, TLC

VARIABLES
  build,               \* "server" | "local"
  now,                 \* Date.now()
  events,              \* number of external inputs taken so far (bounded)
  state,               \* context.state / bobiStore.state
  awakeStartTime,      \* Null or a time
  dialogStartTime,     \* Null or a time
  lastInteractionTime, \* Null or a time
  sessionId,           \* Null or the id of the provider that reported it
  mood,                \* deviceState.expression (server) / deviceState.mood (local)
  awakeTimer,          \* Null or the time the awake timeout is due
  dialogTimer,         \* Null or the time the dialog timeout is due
  graceTimers,         \* due times of the setTimeout(..., 5000) after a wrap-up
  greetTimers,         \* local: due times of the setTimeout(..., 500) of wake()
  llm,                 \* Orchestrator.llm: Null or a provider id
  prov,                \* provider id -> "none" | "connecting" | "connected" | "closed"
  connectWait,         \* providers whose connect() promise is not settled yet
  closeEvents,         \* providers whose socket close event is still to be delivered
  fetching,            \* local: wake() calls awaiting fetchEphemeralToken()
  realtimeStatus,      \* bobiStore.realtimeStatus / the broadcast realtimeStatus
  limiter,             \* camera -> [lastAction, timestamps]: Cooldown + SlidingWindowCounter
  frameRequestId,      \* Orchestrator.frameRequestId / registry frameRequestId
  pendingFrames,       \* pendingFrameRequests / frameResolvers: set of [id, by]
  frameTimers,         \* the timeouts of the frame requests: set of [id, due]
  resolved,            \* history: request id -> times its promise was resolved
  sent,                \* history: tool results sent to an LLM: set of [by, to, late]
  device,              \* deviceState (volume, brightness, expression, headPose)
                       \* and the lastAction of deviceStateCooldown
  gimbalTimers,        \* due times of the setTimeout(..., 1500) of a gimbal touch
  standbyTimers,       \* due times of the setTimeout(..., 5000) of end_conversation
  imu,                 \* mockIMU.eventLevel, the L0 revert timers, and history:
                       \* the event clips saved and the IMU prompts sent
  grants,              \* history: camera -> times at which a capture was granted
  toolResult,          \* history: the result of the latest tool call
  location,            \* mockLocation / gpsLocation, and locationCache
  toolCalls,           \* pendingToolCalls of the providers: set of [id, by];
                       \* the frame request -> call id of its handler; and
                       \* history: call id -> [by, outputs], the provider that
                       \* announced it and the function_call_output items sent
  wrapUps,             \* history: dialogTimeout signals since the last entry into Idle
  lastWrapUp,          \* history: time of the latest wrap-up signal, Null if none
  firstDialogStart,    \* history: time Dialog was first entered since the last Idle
  opened               \* history: createLLMProvider() calls so far

vars == << build, now, events, state, awakeStartTime, dialogStartTime,
           lastInteractionTime, sessionId, mood, awakeTimer, dialogTimer,
           graceTimers, greetTimers, llm, prov, connectWait, closeEvents,
           fetching, realtimeStatus, limiter, frameRequestId, pendingFrames,
           frameTimers, resolved, sent, device, gimbalTimers, standbyTimers,
           imu, grants,
           toolResult, location, toolCalls, wrapUps, lastWrapUp,
           firstDialogStart, opened >>

----------------------------------------------------------------------------
(* Program constants *)

AWAKE_WINDOW_MS == 20000
MAX_DIALOG_DURATION_MS == 180000
CAPTURE_COOLDOWN_MS == 800
CAPTURE_MAX_PER_10S == 3
CAPTURE_WINDOW_MS == 10000
WRAP_UP_GRACE_MS == 5000
GREETING_DELAY_MS == 500
SERVER_FRAME_TIMEOUT_MS == 5000
LOCAL_FRAME_TIMEOUT_MS == 10000
LOCATION_CACHE_MS == 1000
VOLUME_BRIGHTNESS_COOLDOWN_MS == 300
VOLUME_BRIGHTNESS_MAX_DELTA == 15
MAX_LEVEL == 100          \* volume and brightness are kept in 0..100
MAX_YAW == 45
MAX_PITCH == 30
MAX_ROLL == 30
GIMBAL_STEP == 15         \* the yaw offset of a gimbal touch
GIMBAL_REVERT_MS == 1500  \* delay of the return to center
STANDBY_DELAY_MS == 5000  \* delay of standby() after end_conversation
IMU_REVERT_MS == 2000     \* delay of the expression reset after an L0 event

\* null for a timestamp, a timer handle, llm and sessionId.  The source tests
\* these by truthiness (!awakeStartTime, dialogStartTime || Date.now()), under
\* which null and 0 are the same; Date.now() is never 0.
Null == 0

(* Bounds of the model *)

MaxEvents == 3        \* external inputs per run
MaxProviders == 2     \* createLLMProvider() calls per run
TickMs == 300         \* time passing between two external inputs
\* CaptureSpec: the instants, after StartTime, at which tool calls arrive:
\* within and at the cooldown of a call at StartTime, and just before and
\* at the end of its window.
CaptureOffsets == {0, 400, 800, 1600, 9600, 10000}

\* CounterSpec: the instants at which act() is called: inside the window of
\* a call at StartTime, just before and at its end, and likewise for the
\* window of a call at 2500.
CounterOffsets == {0, 2500, 5000, 9999, 10000, 12499, 12500, 20000}

\* DeviceSpec: the instants at which set_device_state calls arrive (within
\* the device cooldown, and far enough apart for four accepted changes), and
\* the arguments of the calls: targets beyond the maximum step and beyond
\* 0..100, a target within the step, the initial volume, and head poses
\* beyond the ranges.
DeviceOffsets == {0, 200, 400, 800, 1200}
DeviceArgs ==
  {[volume |-> 120],
   [volume |-> 100, brightness |-> 75, expression |-> "happy"],
   [volume |-> -20, brightness |-> 100,
    headPose |-> [yaw |-> 60, pitch |-> -40]],
   [volume |-> 50, expression |-> "sad",
    headPose |-> [yaw |-> 45, roll |-> 40]]}

\* GimbalSpec: the instants at which set_device_state calls and gimbal
\* touches arrive (before and after the revert of a touch at StartTime), the
\* head poses the calls ask for, and the draws of Math.random().
GimbalOffsets == {0, 800, 1600}
GimbalArgs ==
  {[headPose |-> [yaw |-> 60, pitch |-> -40]],
   [headPose |-> [yaw |-> 45, roll |-> 40]]}

\* LocationSpec: the instants at which get_location calls and GPS updates
\* arrive (inside, at the end and outside of the cache freshness of a call
\* at StartTime), the freshnessMs arguments of the calls, and the
\* coordinates of the updates.
LocationOffsets == {0, 400, 1000, 1400}
LocationArgs == {<< >>, [freshnessMs |-> 200], [freshnessMs |-> 5000]}
Coordinates == 0..2

\* BadCallSpec: the instants of the tool calls, and the calls that the
\* dispatcher cannot serve: a camera that does not exist, an empty camera
\* name, and a tool that does not exist.
BadCallOffsets == {0, 400, 800}

\* CooldownSpec: the instants of the set_device_state calls (inside, at the
\* end and outside of the cooldown of a call at StartTime) and their
\* arguments: a volume or a brightness alone, both, other than and equal to
\* the initial values.
CooldownOffsets == {0, 200, 300, 500}
CooldownArgs ==
  {[volume |-> 60], [brightness |-> 60], [volume |-> 50], [brightness |-> 70],
   [volume |-> 55, brightness |-> 80]}

\* MoodSpec: the instants of the set_device_state calls with a mood, inside
\* and outside of the volume/brightness cooldown, and their arguments: the
\* moods of the tool's schema, alone and together with a volume.
MoodOffsets == {0, 400, 1200}
Moods == {"happy", "sad", "curious", "surprised", "sleepy", "neutral"}
MoodArgs == {[mood |-> m] : m \in Moods} \cup {[mood |-> "sad", volume |-> 50]}

\* Tool calls followed by their call ids: the instants of the calls, the
\* number of calls of a run, and the calls.
ResultOffsets == {0, 19500}
MaxCalls == 3
ResultCalls == {"capture_front", "capture_rear", "get_location",
                "get_imu_summary", "set_device_state"}
BadCalls == {[name |-> "capture_frame", camera |-> "side"],
             [name |-> "capture_frame", camera |-> ""],
             [name |-> "open_window", camera |-> ""]}

\* LimitSpec: the instants at which set_device_state calls arrive (within
\* the device cooldown) and their arguments, and the instants at which
\* capture_frame calls arrive (at the capture cooldown, up to a fourth one).
LimitDeviceOffsets == {0, 200}
LimitCaptureOffsets == {0, 800, 1600, 2400}
LimitOffsets == LimitDeviceOffsets \cup LimitCaptureOffsets
LimitArgs == {[volume |-> 100], [volume |-> 50, brightness |-> 100]}
StartTime == 100000   \* Date.now() at construction

DVR_IDLE == "DVR_IDLE"
AWAKE_LISTEN == "AWAKE_LISTEN"
ACTIVE_DIALOG == "ACTIVE_DIALOG"
VISION_CHECK == "VISION_CHECK"
BobiState == {DVR_IDLE, AWAKE_LISTEN, ACTIVE_DIALOG, VISION_CHECK}
Cameras == {"front", "rear"}
Providers == 1..MaxProviders

\* The draws of Math.random() of one step: the expression variant and the
\* head pose index of BobiStore.setMood, and the side of a gimbal touch.  A
\* step that is not given its draws uses NoRandom.
NoRandom == [variant |-> 0, pose |-> 0, right |-> FALSE]
Randoms == [variant : 0..2, pose : 0..2, right : BOOLEAN]

\* GimbalSpec: the draws of its steps (the head pose and the side vary).
PoseRandoms == {r \in Randoms : r.variant = 0}

\* The initial deviceState of the two builds, with the lastAction of
\* deviceStateCooldown.  The server's HeadPose has no roll, and its
\* expression is the variable mood.  The local expression is << name >>, or
\* << mood, variant >> for the `${mood}_${variant}` of setMood.
serverDeviceState ==
  [volume |-> 50, brightness |-> 70,
   headPose |-> [yaw |-> 0, pitch |-> 0], lastAction |-> 0]
localDeviceState ==
  [volume |-> 50, brightness |-> 70, expression |-> << "sleepy", 0 >>,
   headPose |-> [yaw |-> 0, pitch |-> 0, roll |-> 0], lastAction |-> 0]

NoResult == [tool |-> "none"]

\* An empty Cache<GPSLocation>: value null, timestamp 0.  The coordinates of
\* a location are one number.
NoCache == [valid |-> FALSE, coords |-> 0, ts |-> 0, timestamp |-> 0]

----------------------------------------------------------------------------
(* The program state as a record *)

Cur ==
  [ build |-> build, now |-> now, events |-> events, state |-> state,
    awakeStartTime |-> awakeStartTime, dialogStartTime |-> dialogStartTime,
    lastInteractionTime |-> lastInteractionTime, sessionId |-> sessionId,
    mood |-> mood, awakeTimer |-> awakeTimer, dialogTimer |-> dialogTimer,
    graceTimers |-> graceTimers, greetTimers |-> greetTimers, llm |-> llm,
    prov |-> prov, connectWait |-> connectWait, closeEvents |-> closeEvents,
    fetching |-> fetching, realtimeStatus |-> realtimeStatus,
    limiter |-> limiter, frameRequestId |-> frameRequestId,
    pendingFrames |-> pendingFrames, frameTimers |-> frameTimers,
    resolved |-> resolved, sent |-> sent, device |-> device,
    gimbalTimers |-> gimbalTimers, standbyTimers |-> standbyTimers,
    imu |-> imu, grants |-> grants,
    toolResult |-> toolResult, location |-> location, rnd |-> NoRandom,
    toolCalls |-> toolCalls, callId |-> Null, wrapUps |-> wrapUps,
    lastWrapUp |-> lastWrapUp, firstDialogStart |-> firstDialogStart,
    opened |-> opened ]

\* The step that leaves the program in state r.
Becomes(r) ==
  /\ build' = r.build
  /\ now' = r.now
  /\ events' = r.events
  /\ state' = r.state
  /\ awakeStartTime' = r.awakeStartTime
  /\ dialogStartTime' = r.dialogStartTime
  /\ lastInteractionTime' = r.lastInteractionTime
  /\ sessionId' = r.sessionId
  /\ mood' = r.mood
  /\ awakeTimer' = r.awakeTimer
  /\ dialogTimer' = r.dialogTimer
  /\ graceTimers' = r.graceTimers
  /\ greetTimers' = r.greetTimers
  /\ llm' = r.llm
  /\ prov' = r.prov
  /\ connectWait' = r.connectWait
  /\ closeEvents' = r.closeEvents
  /\ fetching' = r.fetching
  /\ realtimeStatus' = r.realtimeStatus
  /\ limiter' = r.limiter
  /\ frameRequestId' = r.frameRequestId
  /\ pendingFrames' = r.pendingFrames
  /\ frameTimers' = r.frameTimers
  /\ resolved' = r.resolved
  /\ sent' = r.sent
  /\ device' = r.device
  /\ gimbalTimers' = r.gimbalTimers
  /\ standbyTimers' = r.standbyTimers
  /\ imu' = r.imu
  /\ grants' = r.grants
  /\ toolResult' = r.toolResult
  /\ location' = r.location
  /\ toolCalls' = r.toolCalls
  /\ wrapUps' = r.wrapUps
  /\ lastWrapUp' = r.lastWrapUp
  /\ firstDialogStart' = r.firstDialogStart
  /\ opened' = r.opened

\* An external input (wake word, UI click, user text, LLM tool call) counts
\* against the bound of the run.
Input(s) == [s EXCEPT !.events = s.events + 1]

\* The program state at a step whose Math.random() draws are r.
Rand(s, r) == [s EXCEPT !.rnd = r]

----------------------------------------------------------------------------
(* LLM provider (OpenAIRealtimeClient) *)

\* isConnected(): the socket is open and session.created has been handled.
isConnected(s, p) == p # Null /\ s.prov[p] = "connected"

\* this.llm?.isConnected()
llmConnected(s) == isConnected(s, s.llm)

\* disconnect(): closes the socket; its close event is delivered later.
providerDisconnect(s, p) ==
  IF s.prov[p] \in {"connecting", "connected"}
    THEN [s EXCEPT !.prov[p] = "closed", !.closeEvents = @ \cup {p}]
    ELSE s

\* createLLMProvider() followed by connect(): a new socket, connecting.
createAndConnect(s) ==
  LET p == s.opened + 1
  IN [s EXCEPT !.llm = p, !.prov[p] = "connecting",
               !.connectWait = @ \cup {p}, !.opened = p]

\* The providers that hold a socket that is connecting or open.
LiveProviders(s) == {p \in Providers : s.prov[p] \in {"connecting", "connected"}}

----------------------------------------------------------------------------
(* Server build: StateMachine *)

updateDeviceState(s, expression) == [s EXCEPT !.mood = expression]

getDialogDurationMs(s) ==
  IF s.dialogStartTime = Null THEN 0 ELSE s.now - s.dialogStartTime

getAwakeRemainingMs(s) ==
  IF s.state = DVR_IDLE \/ s.awakeStartTime = Null THEN 0
  ELSE IF AWAKE_WINDOW_MS - (s.now - s.awakeStartTime) > 0
         THEN AWAKE_WINDOW_MS - (s.now - s.awakeStartTime) ELSE 0

isAwake(s) == s.state # DVR_IDLE

\* Variant of canUploadData: upload allowed only once a dialog has started.
canUploadDataInDialogOnly(s) == s.state \in {ACTIVE_DIALOG, VISION_CHECK}

canUploadData(s) == isAwake(s)

\* transition(): records the first entry into Dialog of a session (history).
transition(s, newState) ==
  IF s.state = newState THEN s
  ELSE [s EXCEPT !.state = newState,
                 !.firstDialogStart =
                    IF newState = ACTIVE_DIALOG /\ @ = Null THEN s.now
                    ELSE IF newState = DVR_IDLE THEN Null ELSE @,
                 !.wrapUps = IF newState = DVR_IDLE THEN 0 ELSE @,
                 !.lastWrapUp = IF newState = DVR_IDLE THEN Null ELSE @]

clearTimers(s) == [s EXCEPT !.awakeTimer = Null, !.dialogTimer = Null]

\* Orchestrator.disconnectLLM (server), run on requestLLMDisconnect.
disconnectLLM(s) ==
  IF s.llm # Null
    THEN [providerDisconnect(s, s.llm) EXCEPT !.llm = Null,
                                              !.realtimeStatus = "disconnected"]
    ELSE s

enterDVRIdle(s) ==
  LET s1 == [clearTimers(s) EXCEPT !.awakeStartTime = Null,
                                   !.dialogStartTime = Null,
                                   !.sessionId = Null]
      s2 == disconnectLLM(s1)
      s3 == updateDeviceState(s2, "sleepy")
  IN transition(s3, DVR_IDLE)

startAwakeTimer(s) == [s EXCEPT !.awakeTimer = s.now + AWAKE_WINDOW_MS]

refreshAwakeTimer(s) == startAwakeTimer([s EXCEPT !.awakeStartTime = s.now])

\* Variant of connectLLM: the open request is dropped.
connectLLMDropped(s) == s

\* Orchestrator.connectLLM (server), run on requestLLMConnect.
connectLLM(s) ==
  IF llmConnected(s) THEN s
  ELSE createAndConnect([s EXCEPT !.realtimeStatus = "connecting"])

wake(s) ==
  IF s.state # DVR_IDLE THEN refreshAwakeTimer(s)
  ELSE LET s1 == [s EXCEPT !.awakeStartTime = s.now,
                           !.lastInteractionTime = s.now]
           s2 == updateDeviceState(s1, "happy")
           s3 == connectLLM(s2)
           s4 == startAwakeTimer(s3)
       IN transition(s4, AWAKE_LISTEN)

\* Variant of onDialogTimeout: no grace period, DVR_IDLE at once.
onDialogTimeoutNoGrace(s) == enterDVRIdle(s)

\* The orchestrator's dialogTimeout handler: the wrap-up instruction goes to
\* the LLM if it is connected, and enterDVRIdle() is scheduled 5 s later.
onDialogTimeout(s) ==
  [s EXCEPT !.wrapUps = @ + 1, !.lastWrapUp = s.now,
            !.graceTimers = @ \cup {s.now + WRAP_UP_GRACE_MS}]

handleDialogTimeout(s) == onDialogTimeout(s)

startDialogTimer(s) ==
  LET remaining == MAX_DIALOG_DURATION_MS - getDialogDurationMs(s)
  IN IF remaining <= 0 THEN handleDialogTimeout(s)
     ELSE [s EXCEPT !.dialogTimer = s.now + remaining]

startDialog(s) ==
  IF s.state = DVR_IDLE THEN s
  ELSE LET s1 == [clearTimers(s) EXCEPT
                    !.dialogStartTime = IF @ # Null THEN @ ELSE s.now,
                    !.lastInteractionTime = s.now]
       IN transition(startDialogTimer(s1), ACTIVE_DIALOG)

enterVisionCheck(s) ==
  IF s.state = DVR_IDLE THEN s
  ELSE transition(updateDeviceState([s EXCEPT !.lastInteractionTime = s.now],
                                    "curious"),
                  VISION_CHECK)

exitVisionCheck(s) ==
  IF s.state # VISION_CHECK THEN s ELSE transition(s, ACTIVE_DIALOG)

refreshDialogTimer(s) ==
  IF s.state = ACTIVE_DIALOG THEN [s EXCEPT !.awakeStartTime = s.now] ELSE s

recordInteraction(s) ==
  LET s1 == [s EXCEPT !.lastInteractionTime = s.now]
  IN IF s1.state = AWAKE_LISTEN THEN refreshAwakeTimer(s1)
     ELSE IF s1.state = ACTIVE_DIALOG THEN refreshDialogTimer(s1)
     ELSE s1

setSessionId(s, id) == [s EXCEPT !.sessionId = id]

----------------------------------------------------------------------------
(* Rate limiter primitives *)

\* Variant of cooldownCanAct: no waiting time between two actions.
cooldownCanActNoWait(lastAction, t) == t - lastAction >= 0

\* Cooldown.canAct()
cooldownCanAct(lastAction, t) == t - lastAction >= CAPTURE_COOLDOWN_MS

\* SlidingWindowCounter.cleanup()
cleanup(timestamps, t) ==
  SelectSeq(timestamps, LAMBDA x : t - x < CAPTURE_WINDOW_MS)

\* Variant of counterCanAct: one more action fits in the window.
counterCanActOneMore(timestamps) == Len(timestamps) <= CAPTURE_MAX_PER_10S

\* SlidingWindowCounter.canAct(), on timestamps already cleaned up
counterCanAct(timestamps) == Len(timestamps) < CAPTURE_MAX_PER_10S

\* SlidingWindowCounter.act(): the value returned and the timestamps kept
counterAct(timestamps, t) ==
  LET ts == cleanup(timestamps, t)
  IN IF counterCanAct(ts) THEN [ok |-> TRUE, timestamps |-> Append(ts, t)]
     ELSE [ok |-> FALSE, timestamps |-> ts]

\* Variant of captureChecks: the cooldown is consumed as soon as it has
\* elapsed, before the counter and the state are checked.
captureChecksActFirst(s, camera) ==
  LET lim == s.limiter[camera]
  IN IF ~cooldownCanAct(lim.lastAction, s.now)
       THEN [granted |-> FALSE, error |-> "cooldown", s |-> s]
     ELSE LET ts == cleanup(lim.timestamps, s.now)
              s1 == [s EXCEPT !.limiter[camera].timestamps = ts,
                              !.limiter[camera].lastAction = s.now]
          IN IF ~counterCanAct(ts)
               THEN [granted |-> FALSE, error |-> "window", s |-> s1]
             ELSE IF ~canUploadData(s1)
               THEN [granted |-> FALSE, error |-> "dvr", s |-> s1]
             ELSE [granted |-> TRUE, error |-> "none",
                   s |-> [s1 EXCEPT !.limiter[camera].timestamps =
                                       Append(ts, s.now)]]

\* The rate-limit and state checks of capture_frame, in the order of the
\* source: cooldown, counter (which prunes its timestamps), canUploadData.
\* Returns the state, whether the capture was granted and, if not, which
\* error was returned; a granted capture has consumed the cooldown and one
\* slot of the counter.
captureChecks(s, camera) ==
  LET lim == s.limiter[camera]
  IN IF ~cooldownCanAct(lim.lastAction, s.now)
       THEN [granted |-> FALSE, error |-> "cooldown", s |-> s]
     ELSE LET ts == cleanup(lim.timestamps, s.now)
              s1 == [s EXCEPT !.limiter[camera].timestamps = ts]
          IN IF ~counterCanAct(ts)
               THEN [granted |-> FALSE, error |-> "window", s |-> s1]
             ELSE IF ~canUploadData(s1)
               THEN [granted |-> FALSE, error |-> "dvr", s |-> s1]
             ELSE [granted |-> TRUE, error |-> "none",
                   s |-> [s1 EXCEPT !.limiter[camera].lastAction = s.now,
                                    !.limiter[camera].timestamps =
                                       Append(ts, s.now)]]

\* requestFrameFromClient (server) / bobiStore.requestFrame (local): a new
\* pending request, made for a tool call of provider by, with its timeout.
requestFrame(s, timeoutMs, by) ==
  LET id == s.frameRequestId + 1
  IN [s EXCEPT !.frameRequestId = id,
               !.pendingFrames = @ \cup {[id |-> id, by |-> by]},
               !.frameTimers = @ \cup {[id |-> id, due |-> s.now + timeoutMs]},
               !.resolved = Append(@, 0),
               !.toolCalls.frameCall = Append(@, s.callId)]

\* The providers q the message is written to: send() drops it unless the
\* socket is open.  late tells whether the calling provider is gone.
send(s, q, by) ==
  IF s.prov[q] = "connected"
    THEN [s EXCEPT !.sent = @ \cup
            {[by |-> by, to |-> q,
              late |-> s.prov[by] \notin {"connecting", "connected"}]}]
    ELSE s

\* The 'response.function_call_arguments.done' event with call_id id on
\* provider by: pendingToolCalls.set(id, toolCall), and the handler of the
\* toolCall event then runs for that call.
announceToolCall(s, id, by) ==
  [s EXCEPT !.callId = id,
            !.toolCalls.pending = @ \cup {[id |-> id, by |-> by]},
            !.toolCalls.calls = Append(@, [by |-> by, outputs |-> 0])]

\* OpenAIRealtimeClient.submitToolResult on provider q, for a tool call that
\* provider by announced: q knows the call id only if it announced it and
\* has not answered it yet; the entry is deleted and the function_call_output
\* is written to the socket, if that is open.  Where the call ids are not
\* followed (callId is Null) every call of a provider counts as pending.
submitToolResult(s, q, by) ==
  IF s.callId = Null THEN (IF by = q THEN send(s, q, by) ELSE s)
  ELSE IF [id |-> s.callId, by |-> q] \notin s.toolCalls.pending THEN s
  ELSE send([s EXCEPT
               !.toolCalls.pending = @ \ {[id |-> s.callId, by |-> q]},
               !.toolCalls.calls[s.callId].outputs =
                  IF s.prov[q] = "connected" THEN @ + 1 ELSE @],
            q, by)

\* OpenAIRealtimeClient.sendImage on provider q: no call id involved.
sendImage(s, q, by) == send(s, q, by)

\* The rest of the server toolCall handler, once executeTool has returned:
\* exitVisionCheck(), then the result goes to this.llm if it is connected.
serverToolCallDone(s, by, image) ==
  LET s1 == exitVisionCheck(s)
  IN IF llmConnected(s1) THEN submitToolResult(s1, s1.llm, by) ELSE s1

\* The toolCall handler of the server orchestrator for capture_frame, up to
\* the point where it awaits the frame (or, on a rejection, to its end).
serverToolCallCapture(s, camera, by) ==
  LET s1 == enterVisionCheck(s)
      c == captureChecks(s1, camera)
  IN IF c.granted THEN requestFrame(c.s, SERVER_FRAME_TIMEOUT_MS, by)
     ELSE serverToolCallDone(c.s, by, FALSE)

----------------------------------------------------------------------------
(* Local build: BobiStore and the local Orchestrator *)

\* BobiStore.MOOD_HEAD_POSES
MOOD_HEAD_POSES ==
  [happy |-> << [yaw |-> 0, pitch |-> -5, roll |-> 0],
                [yaw |-> 8, pitch |-> -3, roll |-> 5],
                [yaw |-> -8, pitch |-> -3, roll |-> -5] >>,
   sad |-> << [yaw |-> 0, pitch |-> 10, roll |-> 0],
              [yaw |-> -5, pitch |-> 8, roll |-> -3],
              [yaw |-> 5, pitch |-> 12, roll |-> 3] >>,
   curious |-> << [yaw |-> 15, pitch |-> -5, roll |-> 8],
                  [yaw |-> -15, pitch |-> -5, roll |-> -8],
                  [yaw |-> 0, pitch |-> -10, roll |-> 12] >>,
   surprised |-> << [yaw |-> 0, pitch |-> -8, roll |-> 0],
                    [yaw |-> -5, pitch |-> -10, roll |-> -3],
                    [yaw |-> 5, pitch |-> -10, roll |-> 3] >>,
   sleepy |-> << [yaw |-> 0, pitch |-> 8, roll |-> 0],
                 [yaw |-> -3, pitch |-> 5, roll |-> -10],
                 [yaw |-> 3, pitch |-> 5, roll |-> 10] >>,
   neutral |-> << [yaw |-> 0, pitch |-> 0, roll |-> 0],
                  [yaw |-> 3, pitch |-> -2, roll |-> 0],
                  [yaw |-> -3, pitch |-> -2, roll |-> 0] >> ]

\* BobiStore.setMood: the mood, with a random expression variant and a random
\* head pose of the mood.
setMood(s, m) ==
  [s EXCEPT !.mood = m,
            !.device.expression = << m, s.rnd.variant >>,
            !.device.headPose = MOOD_HEAD_POSES[m][s.rnd.pose + 1]]

\* BobiStore.setState; the history fields are kept as in transition().
setState(s, newState) ==
  LET oldState == s.state
      s1 == [s EXCEPT !.state = newState,
                      !.firstDialogStart =
                         IF newState = ACTIVE_DIALOG /\ oldState # ACTIVE_DIALOG
                            /\ @ = Null THEN s.now
                         ELSE IF newState = DVR_IDLE THEN Null ELSE @,
                      !.wrapUps = IF newState = DVR_IDLE THEN 0 ELSE @,
                      !.lastWrapUp = IF newState = DVR_IDLE THEN Null ELSE @]
  IN IF newState = AWAKE_LISTEN /\ oldState = DVR_IDLE
       THEN setMood([s1 EXCEPT !.awakeStartTime = s.now], "curious")
     ELSE IF newState = DVR_IDLE
       THEN setMood([s1 EXCEPT !.awakeStartTime = Null,
                               !.dialogStartTime = Null], "sleepy")
     ELSE IF newState = ACTIVE_DIALOG /\ oldState # ACTIVE_DIALOG
       THEN setMood([s1 EXCEPT !.dialogStartTime = s.now], "happy")
     ELSE s1

setRealtimeStatus(s, status) ==
  [s EXCEPT !.realtimeStatus = status,
            !.sessionId = IF status = "disconnected" THEN Null ELSE @]

storeRecordInteraction(s) == [s EXCEPT !.lastInteractionTime = s.now]

localClearTimers(s) == [s EXCEPT !.awakeTimer = Null, !.dialogTimer = Null]

localStartAwakeTimer(s) == [s EXCEPT !.awakeTimer = s.now + AWAKE_WINDOW_MS]

localResetAwakeTimer(s) == IF isAwake(s) THEN localStartAwakeTimer(s) ELSE s

\* The callback of the local dialog timer: wrap-up instruction to the LLM if
\* connected, then sleep() 5 s later.
localOnDialogTimeout(s) ==
  [s EXCEPT !.wrapUps = @ + 1, !.lastWrapUp = s.now,
            !.graceTimers = @ \cup {s.now + WRAP_UP_GRACE_MS}]

localStartDialogTimer(s) ==
  [s EXCEPT !.dialogTimer = s.now + MAX_DIALOG_DURATION_MS]

localDisconnectLLM(s) ==
  IF s.llm # Null
    THEN setRealtimeStatus([providerDisconnect(s, s.llm) EXCEPT !.llm = Null],
                           "disconnected")
    ELSE s

localSleep(s) == localClearTimers(localDisconnectLLM(setState(s, DVR_IDLE)))

localStandby(s) ==
  localClearTimers(localDisconnectLLM(setState(s, AWAKE_LISTEN)))

localStartDialog(s) ==
  LET s1 == IF s.state # ACTIVE_DIALOG
              THEN localStartDialogTimer(setState(s, ACTIVE_DIALOG))
              ELSE s
  IN localResetAwakeTimer(s1)

localRecordInteraction(s) == localResetAwakeTimer(storeRecordInteraction(s))

\* wake() after `await this.connectLLM()`: the awake timer, and the greeting
\* 500 ms later if the LLM is connected.
wakeAfterConnect(s) ==
  LET s1 == localStartAwakeTimer(s)
  IN IF llmConnected(s1)
       THEN [s1 EXCEPT !.greetTimers = @ \cup {s.now + GREETING_DELAY_MS}]
       ELSE s1

\* wake() up to its first suspension: connectLLM() either returns at once
\* (already connected) or awaits fetchEphemeralToken().
localWake(s) ==
  IF s.state = ACTIVE_DIALOG /\ llmConnected(s) THEN localResetAwakeTimer(s)
  ELSE LET s1 == setState(s, AWAKE_LISTEN)
       IN IF llmConnected(s1) THEN wakeAfterConnect(s1)
          ELSE [setRealtimeStatus(s1, "connecting") EXCEPT !.fetching = @ + 1]

\* connectLLM() after the token has arrived: this.llm is assigned the new
\* provider, whatever it held, and connect() is awaited.
localConnectWithToken(s) == createAndConnect([s EXCEPT !.fetching = @ - 1])

\* connectLLM()'s catch block, then the rest of wake().
localConnectFailed(s) == wakeAfterConnect(setRealtimeStatus(s, "error"))

\* The greeting callback of wake().
localGreeting(s) == IF llmConnected(s) THEN localStartDialog(s) ELSE s

\* The callback of the local awake timer.
localOnAwakeTimeout(s) == IF s.state = AWAKE_LISTEN THEN localSleep(s) ELSE s

\* The rest of the local toolCall handler, once executeTool has returned:
\* setState('ACTIVE_DIALOG'), then an image goes to this.llm with sendImage
\* and any other result with submitToolResult, if this.llm is connected.
localToolCallDone(s, by, image) ==
  LET s1 == setState(s, ACTIVE_DIALOG)
  IN IF ~llmConnected(s1) THEN s1
     ELSE IF image THEN sendImage(s1, s1.llm, by)
     ELSE submitToolResult(s1, s1.llm, by)

\* The toolCall handler of the local orchestrator for capture_frame.
localToolCallCapture(s, camera, by) ==
  LET s1 == setState(s, VISION_CHECK)
      c == captureChecks(s1, camera)
  IN IF c.granted THEN requestFrame(c.s, LOCAL_FRAME_TIMEOUT_MS, by)
     ELSE localToolCallDone(c.s, by, FALSE)

----------------------------------------------------------------------------
(* Device state: set_device_state and the gimbal touch, both builds *)

\* Math.min / Math.max
Min(a, b) == IF a < b THEN a ELSE b
Max(a, b) == IF a > b THEN a ELSE b

\* Math.max(lo, Math.min(hi, x))
clamp(lo, hi, x) == Max(lo, Min(hi, x))

\* Variant of deviceCooldownCanAct: the cooldown ends 100 ms early.
deviceCooldownCanActEarly(lastAction, t) ==
  t - lastAction >= VOLUME_BRIGHTNESS_COOLDOWN_MS - 100

\* deviceStateCooldown.canAct()
deviceCooldownCanAct(lastAction, t) ==
  t - lastAction >= VOLUME_BRIGHTNESS_COOLDOWN_MS

\* Variant of stepLevel: the delta is clamped, the result is not.
stepLevelNoBounds(current, requested) ==
  current + clamp(-VOLUME_BRIGHTNESS_MAX_DELTA, VOLUME_BRIGHTNESS_MAX_DELTA,
                  requested - current)

\* Variant of stepLevel: the requested value, kept in 0..100.
stepLevelToTarget(current, requested) == clamp(0, MAX_LEVEL, requested)

\* The new value of volume or brightness for a requested value that is not
\* rejected: the delta clamped to the maximum step, the result to 0..100.
stepLevel(current, requested) ==
  LET delta == requested - current
      clampedDelta == clamp(-VOLUME_BRIGHTNESS_MAX_DELTA,
                            VOLUME_BRIGHTNESS_MAX_DELTA, delta)
  IN clamp(0, MAX_LEVEL, current + clampedDelta)

\* Whether an optional field is present in the arguments of a call
has(args, f) == f \in DOMAIN args

\* args.f ?? b
orElse(args, f, b) == IF has(args, f) THEN args[f] ELSE b

\* A field of an object literal, present only if cond holds
field(cond, f, v) == IF cond THEN f :> v ELSE << >>

\* getDeviceState() / bobiStore.deviceState: what a tool result carries.
getDeviceState(s) ==
  IF s.build = "server"
    THEN [volume |-> s.device.volume, brightness |-> s.device.brightness,
          expression |-> s.mood, headPose |-> s.device.headPose]
  ELSE [volume |-> s.device.volume, brightness |-> s.device.brightness,
        mood |-> s.mood, expression |-> s.device.expression,
        headPose |-> s.device.headPose]

\* Variant of mergeDeviceState: a head pose among the updates is dropped.
mergeDeviceStateNoPose(s, updates) ==
  LET s1 == [s EXCEPT
               !.device.volume = orElse(updates, "volume", @),
               !.device.brightness = orElse(updates, "brightness", @)]
  IN IF ~has(updates, "expression") THEN s1
     ELSE IF s.build = "server" THEN updateDeviceState(s1, updates.expression)
     ELSE [s1 EXCEPT !.device.expression = << updates.expression >>]

\* stateMachine.updateDeviceState(updates) / bobiStore.updateDeviceState:
\* the fields of updates that are present replace those of deviceState.
mergeDeviceState(s, updates) ==
  LET s1 == [s EXCEPT
               !.device.volume = orElse(updates, "volume", @),
               !.device.brightness = orElse(updates, "brightness", @),
               !.device.headPose = orElse(updates, "headPose", @)]
  IN IF ~has(updates, "expression") THEN s1
     ELSE IF s.build = "server" THEN updateDeviceState(s1, updates.expression)
     ELSE [s1 EXCEPT !.device.expression = << updates.expression >>]

\* The clamped head pose of setDeviceState; the server's has no roll.
clampHeadPose(s, pose) ==
  LET cur == s.device.headPose
      yaw == clamp(-MAX_YAW, MAX_YAW, orElse(pose, "yaw", cur.yaw))
      pitch == clamp(-MAX_PITCH, MAX_PITCH, orElse(pose, "pitch", cur.pitch))
  IN IF s.build = "server" THEN [yaw |-> yaw, pitch |-> pitch]
     ELSE [yaw |-> yaw, pitch |-> pitch,
           roll |-> clamp(-MAX_ROLL, MAX_ROLL, orElse(pose, "roll", cur.roll))]

\* setDeviceState(args) of the tool registry (server) and of the local
\* orchestrator.  Returns the state after the call and the result: ok, the
\* rejected fields named by the error message, and the device state.
setDeviceState(s, args) ==
  LET cur == s.device
      canAct == deviceCooldownCanAct(cur.lastAction, s.now)
      volumeRejected ==
        has(args, "volume") /\ ~canAct /\ cur.volume # args.volume
      brightnessRejected ==
        has(args, "brightness") /\ ~canAct /\ cur.brightness # args.brightness
      updates ==
        field(has(args, "volume") /\ ~volumeRejected, "volume",
              stepLevel(cur.volume, args.volume))
        @@ field(has(args, "brightness") /\ ~brightnessRejected, "brightness",
                 stepLevel(cur.brightness, args.brightness))
        @@ field(has(args, "expression"), "expression", args.expression)
        @@ field(has(args, "headPose"), "headPose",
                 clampHeadPose(s, args.headPose))
      errors == (IF volumeRejected THEN {"volume"} ELSE {})
                  \cup (IF brightnessRejected THEN {"brightness"} ELSE {})
      \* deviceStateCooldown.act(), which does nothing unless canAct()
      s1 == IF (has(args, "volume") \/ has(args, "brightness")) /\ canAct
              THEN [s EXCEPT !.device.lastAction = s.now]
            ELSE s
      s2 == IF DOMAIN updates = {} THEN s ELSE mergeDeviceState(s1, updates)
  IN [s |-> s2, ok |-> errors = {}, errors |-> errors,
      state |-> getDeviceState(s2)]

\* The toolCall handler for set_device_state: the tool runs without
\* suspending, and its result is submitted if the current provider is
\* connected.
onToolCallSetDevice(s, args, by) ==
  LET s1 == setDeviceState(s, args).s
  IN IF llmConnected(s1) THEN submitToolResult(s1, s1.llm, by) ELSE s1

----------------------------------------------------------------------------
(* Location: get_location, its cache and the GPS update, both builds *)

\* Cache.get() returns a value: one was set and is younger than freshnessMs.
cacheFresh(cache, t) == cache.valid /\ t - cache.timestamp < LOCATION_CACHE_MS

\* Cache.set(value)
cacheSet(coords, ts, t) ==
  [valid |-> TRUE, coords |-> coords, ts |-> ts, timestamp |-> t]

\* updateMockLocation (server), which invalidates the cache, and
\* bobiStore.updateGPS (local), which does not know the cache.
updateLocation(s, coords) ==
  LET s1 == [s EXCEPT !.location.gps = [coords |-> coords, ts |-> s.now]]
  IN IF s.build = "server" THEN [s1 EXCEPT !.location.cache = NoCache]
     ELSE s1

\* getLocation(args): the state after the call and the result, an error in
\* DVR_IDLE, else the cached location or the current one, which is cached.
getLocation(s, args) ==
  LET cache == s.location.cache
      freshnessMs == orElse(args, "freshnessMs", LOCATION_CACHE_MS)
  IN IF ~canUploadData(s)
       THEN [s |-> s, error |-> "dvr", coords |-> 0, ts |-> 0]
     ELSE IF cacheFresh(cache, s.now) /\ s.now - cache.ts < freshnessMs
       THEN [s |-> s, error |-> "none", coords |-> cache.coords,
             ts |-> cache.ts]
     ELSE [s |-> [s EXCEPT !.location.gps.ts =
                               IF s.build = "server" THEN s.now ELSE @,
                           !.location.cache =
                               cacheSet(s.location.gps.coords, s.now, s.now)],
           error |-> "none", coords |-> s.location.gps.coords, ts |-> s.now]

\* The toolCall handler for get_location.
onToolCallGetLocation(s, args, by) ==
  LET s1 == getLocation(s, args).s
  IN IF llmConnected(s1) THEN submitToolResult(s1, s1.llm, by) ELSE s1

----------------------------------------------------------------------------
(* end_conversation *)

\* The toolCall handler for end_conversation.  The local handler answers
\* { success: true } and schedules standby() 5 s later; the server handler
\* has no such branch, executeTool answers from its default branch.
onToolCallEndConversation(s, by) ==
  LET s1 == IF llmConnected(s) THEN submitToolResult(s, s.llm, by) ELSE s
  IN IF s.build = "server" THEN s1
     ELSE [s1 EXCEPT !.standbyTimers = @ \cup {s.now + STANDBY_DELAY_MS}]

\* The result that the handler hands to submitToolResult.
endConversationResult(s) ==
  IF s.build = "server" THEN [ok |-> FALSE, error |-> "unknown tool"]
  ELSE [ok |-> TRUE, error |-> "none"]

\* The setTimeout callback of the end_conversation branch.
onStandbyTimeout(s, due) ==
  localStandby([s EXCEPT !.standbyTimers = @ \ {due}])

----------------------------------------------------------------------------
(* Tool calls with an unknown name or a camera that does not exist *)

\* args.camera || 'front': an empty camera name counts as absent.
cameraOf(call) == IF call.camera = "" THEN "front" ELSE call.camera

\* What executeTool returns for the call when it does not wait for a frame.
\* captureRateLimiters[camera] is undefined for a camera that does not
\* exist: reading its cooldown throws a TypeError, which the catch block
\* turns into the error String(err).
toolCallResult(s, call) ==
  IF call.name # "capture_frame"
    THEN [tool |-> call.name, granted |-> FALSE, error |-> "unknown tool"]
  ELSE IF cameraOf(call) \notin Cameras
    THEN [tool |-> call.name, granted |-> FALSE, error |-> "TypeError"]
  ELSE LET c == captureChecks(IF s.build = "server" THEN enterVisionCheck(s)
                              ELSE setState(s, VISION_CHECK), cameraOf(call))
       IN [tool |-> call.name, granted |-> c.granted,
           error |-> IF c.granted THEN "none"
                     ELSE IF s.build = "server" THEN c.error ELSE "failed"]

\* The toolCall handler for such a call: VisionCheck is entered and left
\* around executeTool for every capture_frame call, and the result goes to
\* this.llm if it is connected.
onToolCall(s, call, by) ==
  IF call.name # "capture_frame"
    THEN IF llmConnected(s) THEN submitToolResult(s, s.llm, by) ELSE s
  ELSE IF cameraOf(call) \in Cameras
    THEN IF s.build = "server"
           THEN serverToolCallCapture(s, cameraOf(call), by)
           ELSE localToolCallCapture(s, cameraOf(call), by)
  ELSE IF s.build = "server"
    THEN serverToolCallDone(enterVisionCheck(s), by, FALSE)
    ELSE localToolCallDone(setState(s, VISION_CHECK), by, FALSE)

----------------------------------------------------------------------------
(* IMU events *)

IMULevels == {"L0", "L1", "L2"}

\* The expression update of the IMU handler: setDeviceState({expression})
\* on the server, bobiStore.updateDeviceState({expression}) locally.
setExpression(s, e) ==
  IF s.build = "server" THEN setDeviceState(s, [expression |-> e]).s
  ELSE mergeDeviceState(s, [expression |-> e])

\* The expression of the device as the IMU handler sets it.
expressionOf(s) ==
  IF s.build = "server" THEN s.mood ELSE s.device.expression[1]

\* dvrRecorder.saveEventClips(...)
saveEventClips(s) == [s EXCEPT !.imu.clips = @ + 1]

\* this.llm.sendText(...) of the IMU handler
sendIMUPrompt(s) == [s EXCEPT !.imu.prompts = @ + 1]

\* Variant of handleIMUEvent: L2 talks to the LLM only in a dialog, as L1.
handleIMUEventInDialogOnly(s, level) ==
  LET s1 == IF s.build = "server" THEN [s EXCEPT !.imu.eventLevel = level]
            ELSE s
  IN IF level = "L0"
       THEN [setExpression(s1, "surprised") EXCEPT
               !.imu.timers = @ \cup {s.now + IMU_REVERT_MS}]
     ELSE LET s2 == setExpression(s1, "concerned")
              s3 == IF level = "L2" THEN saveEventClips(s2) ELSE s2
          IN IF s3.state = ACTIVE_DIALOG /\ llmConnected(s3)
               THEN sendIMUPrompt(s3) ELSE s3

\* Orchestrator.handleIMUEvent(level); the server first records the level
\* with triggerIMUEvent.
handleIMUEvent(s, level) ==
  LET s1 == IF s.build = "server" THEN [s EXCEPT !.imu.eventLevel = level]
            ELSE s
  IN CASE level = "L0" ->
            [setExpression(s1, "surprised") EXCEPT
               !.imu.timers = @ \cup {s.now + IMU_REVERT_MS}]
       [] level = "L1" ->
            LET s2 == setExpression(s1, "concerned")
            IN IF s2.state = ACTIVE_DIALOG /\ llmConnected(s2)
                 THEN sendIMUPrompt(s2) ELSE s2
       [] level = "L2" ->
            LET s2 == saveEventClips(setExpression(s1, "concerned"))
            IN IF llmConnected(s2) THEN sendIMUPrompt(s2) ELSE s2

\* The setTimeout callback of an L0 event.
onIMURevert(s, due) ==
  setExpression([s EXCEPT !.imu.timers = @ \ {due}],
                IF isAwake(s) THEN "happy" ELSE "sleepy")

----------------------------------------------------------------------------
(* The gimbal touch *)

\* The yaw a gimbal touch asks for: Math.random() > 0.5 ? 15 : -15
touchedYaw(s) ==
  s.device.headPose.yaw + (IF s.rnd.right THEN GIMBAL_STEP ELSE -GIMBAL_STEP)

\* handleGimbalTouched: the server goes through setDeviceState, the local
\* orchestrator writes the store directly.
handleGimbalTouched(s) ==
  LET s1 ==
        IF s.build = "server"
          THEN setDeviceState(s,
                 [expression |-> "surprised",
                  headPose |-> [yaw |-> touchedYaw(s),
                                pitch |-> s.device.headPose.pitch]]).s
        ELSE mergeDeviceState(s,
               [expression |-> "surprised",
                headPose |-> [yaw |-> touchedYaw(s),
                              pitch |-> s.device.headPose.pitch,
                              roll |-> 0]])
  IN [s1 EXCEPT !.gimbalTimers = @ \cup {s.now + GIMBAL_REVERT_MS}]

\* The setTimeout(..., 1500) callback of handleGimbalTouched.
onGimbalRevert(s, due) ==
  LET s1 == [s EXCEPT !.gimbalTimers = @ \ {due}]
      expression == IF isAwake(s1) THEN "happy" ELSE "neutral"
  IN IF s.build = "server"
       THEN setDeviceState(s1, [expression |-> expression,
                                headPose |-> [yaw |-> 0, pitch |-> 0]]).s
     ELSE mergeDeviceState(s1, [expression |-> expression,
                                headPose |-> [yaw |-> 0, pitch |-> 0,
                                              roll |-> 0]])

----------------------------------------------------------------------------
(* Handlers, by build *)

onWake(s) == IF s.build = "server" THEN wake(s) ELSE localWake(s)

\* text_input client message (server) / Orchestrator.sendText (local)
onTextInput(s) ==
  IF s.build = "server" THEN recordInteraction(startDialog(s))
  ELSE localRecordInteraction(localStartDialog(s))

\* audio_chunk client message (server) / every 200th sendAudio (local)
onAudioChunk(s) ==
  IF s.build = "server" THEN recordInteraction(s)
  ELSE localRecordInteraction(s)

\* The toolCall handler for capture_frame
onToolCallCapture(s, camera, by) ==
  IF s.build = "server" THEN serverToolCallCapture(s, camera, by)
  ELSE localToolCallCapture(s, camera, by)

\* The toolCall handler for get_imu_summary: executeTool reads the IMU
\* summary, and the result goes to this.llm if it is connected.
onToolCallGetIMUSummary(s, by) ==
  IF llmConnected(s) THEN submitToolResult(s, s.llm, by) ELSE s

\* Provider by receives the function call `call` from the LLM, which gives
\* it a call id of its own, and emits toolCall: the handler runs up to its
\* end or, for a granted capture, up to the await of the frame.
onToolCallEvent(s, call, by) ==
  LET s1 == announceToolCall(s, Len(s.toolCalls.calls) + 1, by)
  IN CASE call = "capture_front" -> onToolCallCapture(s1, "front", by)
       [] call = "capture_rear" -> onToolCallCapture(s1, "rear", by)
       [] call = "get_location" -> onToolCallGetLocation(s1, << >>, by)
       [] call = "get_imu_summary" -> onToolCallGetIMUSummary(s1, by)
       [] OTHER -> onToolCallSetDevice(s1, [volume |-> 6], by)

\* The frame promise resolves (a frame, an error or the timeout's null).
\* Variant of onFrameResolved: the entry stays in the pending map.
onFrameResolvedKeepsEntry(s, f, image) ==
  LET s1 == [s EXCEPT !.resolved[f.id] = @ + 1,
                      !.callId = s.toolCalls.frameCall[f.id]]
  IN IF s.build = "server" THEN serverToolCallDone(s1, f.by, image)
     ELSE localToolCallDone(s1, f.by, image)

onFrameResolved(s, f, image) ==
  LET s1 == [s EXCEPT !.pendingFrames = @ \ {f},
                      !.resolved[f.id] = @ + 1,
                      !.callId = s.toolCalls.frameCall[f.id]]
  IN IF s.build = "server" THEN serverToolCallDone(s1, f.by, image)
     ELSE localToolCallDone(s1, f.by, image)

\* 'frame_captured' client message (server) / fulfillFrameRequest (local)
\* for request id, with a frame (image) or with an error or null.
onFrameCaptured(s, id, image) ==
  IF \E f \in s.pendingFrames : f.id = id
    THEN onFrameResolved(s, CHOOSE f \in s.pendingFrames : f.id = id, image)
    ELSE s

\* The timeout callback of the frame request tm.id.
onFrameTimeout(s, tm) ==
  LET s1 == [s EXCEPT !.frameTimers = @ \ {tm}]
  IN IF \E f \in s1.pendingFrames : f.id = tm.id
       THEN onFrameResolved(s1, CHOOSE f \in s1.pendingFrames : f.id = tm.id,
                            FALSE)
       ELSE s1

onAwakeTimeout(s) ==
  LET s1 == [s EXCEPT !.awakeTimer = Null]
  IN IF s.build = "server" THEN enterDVRIdle(s1) ELSE localOnAwakeTimeout(s1)

onDialogTimer(s) ==
  LET s1 == [s EXCEPT !.dialogTimer = Null]
  IN IF s.build = "server" THEN handleDialogTimeout(s1)
     ELSE localOnDialogTimeout(s1)

onGraceTimeout(s, t) ==
  LET s1 == [s EXCEPT !.graceTimers = @ \ {t}]
  IN IF s.build = "server" THEN enterDVRIdle(s1) ELSE localSleep(s1)

\* session.created on provider p: the 'connected' handler, then (local) the
\* rest of the wake() that awaited p.connect().
onSessionCreated(s, p) ==
  LET s1 == [s EXCEPT !.prov[p] = "connected", !.connectWait = @ \ {p}]
  IN IF s.build = "server"
       THEN [setSessionId(s1, p) EXCEPT !.realtimeStatus = "connected"]
       ELSE wakeAfterConnect(setRealtimeStatus(setSessionId(s1, p), "connected"))

\* Variant of onConnectRejected: the failure is not reported.
onConnectRejectedSilent(s, p) ==
  LET s1 == [providerDisconnect(s, p) EXCEPT !.connectWait = @ \ {p}]
  IN IF s.build = "server" THEN s1 ELSE wakeAfterConnect(s1)

\* p.connect() rejects (socket error or connect timeout).
onConnectRejected(s, p) ==
  LET s1 == [providerDisconnect(s, p) EXCEPT !.connectWait = @ \ {p}]
  IN IF s.build = "server" THEN [s1 EXCEPT !.realtimeStatus = "error"]
     ELSE localConnectFailed(s1)

\* The 'disconnected' handler, run on the close event of p's socket.
onDisconnected(s, p) ==
  LET s1 == [s EXCEPT !.closeEvents = @ \ {p}]
  IN IF s.build = "server" THEN [s1 EXCEPT !.realtimeStatus = "disconnected"]
     ELSE setRealtimeStatus(s1, "disconnected")

----------------------------------------------------------------------------
(* Initial state: the state after construction *)

Init ==
  /\ build \in {"server", "local"}
  /\ now = StartTime
  /\ events = 0
  /\ state = DVR_IDLE
  /\ awakeStartTime = Null
  /\ dialogStartTime = Null
  /\ lastInteractionTime = Null
  /\ sessionId = Null
  /\ mood = "sleepy"
  /\ awakeTimer = Null
  /\ dialogTimer = Null
  /\ graceTimers = {}
  /\ greetTimers = {}
  /\ llm = Null
  /\ prov = [p \in Providers |-> "none"]
  /\ connectWait = {}
  /\ closeEvents = {}
  /\ fetching = 0
  /\ realtimeStatus = "disconnected"
  /\ limiter = [c \in Cameras |-> [lastAction |-> 0, timestamps |-> << >>]]
  /\ frameRequestId = 0
  /\ pendingFrames = {}
  /\ frameTimers = {}
  /\ resolved = << >>
  /\ sent = {}
  /\ device = IF build = "server" THEN serverDeviceState ELSE localDeviceState
  /\ gimbalTimers = {}
  /\ standbyTimers = {}
  /\ imu = [eventLevel |-> "none", timers |-> {}, clips |-> 0, prompts |-> 0]
  /\ grants = [c \in Cameras |-> << >>]
  /\ toolResult = NoResult
  /\ location = [gps |-> [coords |-> 0, ts |-> StartTime], cache |-> NoCache]
  /\ toolCalls = [pending |-> {}, frameCall |-> << >>, calls |-> << >>]
  /\ wrapUps = 0
  /\ lastWrapUp = Null
  /\ firstDialogStart = Null
  /\ opened = 0

----------------------------------------------------------------------------
(* Actions *)

\* Whether wake() would open a new provider, for which the run needs room.
WakeOpens == build = "server" /\ state = DVR_IDLE /\ ~llmConnected(Cur)

Wake ==
  /\ events < MaxEvents
  /\ WakeOpens => opened < MaxProviders
  /\ Becomes(onWake(Input(Cur)))

\* The UI's sleep button (local build), which calls sleep() when awake.
Sleep ==
  /\ build = "local"
  /\ events < MaxEvents
  /\ isAwake(Cur)
  /\ Becomes(localSleep(Input(Cur)))

TextInput ==
  /\ events < MaxEvents
  /\ Becomes(onTextInput(Input(Cur)))

AudioChunk ==
  /\ events < MaxEvents
  /\ llmConnected(Cur)
  /\ Becomes(onAudioChunk(Input(Cur)))

\* inputAudioTranscript from a connected provider: same calls as a text input.
Transcript ==
  /\ events < MaxEvents
  /\ \E p \in Providers : isConnected(Cur, p)
  /\ Becomes(onTextInput(Input(Cur)))

ToolCallCapture ==
  /\ events < MaxEvents
  /\ \E p \in Providers, camera \in Cameras :
       /\ isConnected(Cur, p)
       /\ Becomes(onToolCallCapture(Input(Cur), camera, p))

\* The client answers a frame request: one that is pending, one that was
\* resolved before, or one that was never made.
FrameCaptured ==
  \E id \in 1..(frameRequestId + 1), image \in BOOLEAN :
    Becomes(onFrameCaptured(Cur, id, image))

FrameTimeout ==
  \E tm \in frameTimers :
    /\ tm.due <= now
    /\ Becomes(onFrameTimeout(Cur, tm))

AwakeTimeout ==
  /\ awakeTimer # Null
  /\ awakeTimer <= now
  /\ Becomes(onAwakeTimeout(Cur))

DialogTimeout ==
  /\ dialogTimer # Null
  /\ dialogTimer <= now
  /\ Becomes(onDialogTimer(Cur))

GraceTimeout ==
  \E t \in graceTimers :
    /\ t <= now
    /\ Becomes(onGraceTimeout(Cur, t))

Greeting ==
  \E t \in greetTimers :
    /\ t <= now
    /\ Becomes(localGreeting([Cur EXCEPT !.greetTimers = @ \ {t}]))

TokenFetched ==
  /\ fetching > 0
  /\ opened < MaxProviders
  /\ Becomes(localConnectWithToken(Cur))

TokenFailed ==
  /\ fetching > 0
  /\ Becomes(localConnectFailed([Cur EXCEPT !.fetching = @ - 1]))

SessionCreated ==
  \E p \in connectWait :
    /\ prov[p] = "connecting"
    /\ Becomes(onSessionCreated(Cur, p))

ConnectRejected ==
  \E p \in connectWait : Becomes(onConnectRejected(Cur, p))

SocketClosed ==
  \E p \in closeEvents : Becomes(onDisconnected(Cur, p))

\* The due times of all pending timers.
Deadlines ==
  ({awakeTimer, dialogTimer} \ {Null}) \cup graceTimers \cup greetTimers
    \cup {tm.due : tm \in frameTimers} \cup gimbalTimers \cup standbyTimers
    \cup imu.timers

\* Some time passes with no timer due in between.
TimePasses ==
  /\ events < MaxEvents
  /\ \A d \in Deadlines : now + TickMs <= d
  /\ Becomes([Input(Cur) EXCEPT !.now = now + TickMs])

\* Time passes until the next pending timer is due.
TimeToNextTimer ==
  /\ Deadlines # {}
  /\ \A d \in Deadlines : d > now
  /\ LET next == CHOOSE d \in Deadlines : \A e \in Deadlines : d <= e
     IN Becomes([Cur EXCEPT !.now = next])

Next ==
  \/ Wake
  \/ Sleep
  \/ TextInput
  \/ AudioChunk
  \/ Transcript
  \/ ToolCallCapture
  \/ FrameCaptured
  \/ FrameTimeout
  \/ AwakeTimeout
  \/ DialogTimeout
  \/ GraceTimeout
  \/ Greeting
  \/ TokenFetched
  \/ TokenFailed
  \/ SessionCreated
  \/ ConnectRejected
  \/ SocketClosed
  \/ TimePasses
  \/ TimeToNextTimer

Spec == Init /\ [][Next]_vars

----------------------------------------------------------------------------
(* Tool calls over time: the capture rate limits *)

\* The checks of a capture_frame call arriving now.
captureOutcome(s, camera) ==
  captureChecks(IF s.build = "server" THEN enterVisionCheck(s)
                ELSE setState(s, VISION_CHECK), camera)

\* What the call returns when it does not wait for a frame: the server's
\* executeTool returns the error of the failed check, the local captureFrame
\* returns null, which executeTool reports as 'Failed to capture frame'.
captureResult(s, camera) ==
  LET c == captureOutcome(s, camera)
  IN [tool |-> "capture_frame", camera |-> camera, granted |-> c.granted,
      error |-> IF c.granted THEN "none"
                ELSE IF s.build = "server" THEN c.error ELSE "failed"]

\* A capture_frame tool call of a connected provider; the call is recorded
\* in the histories grants and toolResult.
CaptureCallBy(p, camera) ==
  /\ isConnected(Cur, p)
  /\ LET r == captureResult(Cur, camera)
     IN Becomes([onToolCallCapture(Cur, camera, p) EXCEPT
                   !.grants[camera] = IF r.granted THEN Append(@, now) ELSE @,
                   !.toolResult = r])

CaptureCall == \E p \in Providers, camera \in Cameras : CaptureCallBy(p, camera)

\* The next of the instants StartTime + o, o in offsets, of a run.
NextTime(offsets) ==
  LET later == {o \in offsets : StartTime + o > now}
  IN StartTime + CHOOSE o \in later : \A q \in later : o <= q

\* Time passes to the next instant of the run.  The client answers a frame
\* request before that, so that no request is pending then.
Tick(offsets) ==
  /\ \E o \in offsets : StartTime + o > now
  /\ pendingFrames = {}
  /\ \A d \in Deadlines : NextTime(offsets) <= d
  /\ Becomes([Cur EXCEPT !.now = NextTime(offsets)])

\* Time passes until the next pending timer is due, within the run.
ToNextTimer(offsets) ==
  /\ pendingFrames = {}
  /\ \E d \in Deadlines, o \in offsets : d <= StartTime + o
  /\ TimeToNextTimer

\* Whether now is one of the instants of the run
AtInstant(offsets) == now - StartTime \in offsets

CaptureTick == Tick(CaptureOffsets)

CaptureToNextTimer == ToNextTimer(CaptureOffsets)

\* The session is set up at the start of the run; tool calls follow, at the
\* instants of the run.
CaptureNext ==
  \/ (now = StartTime /\ state = DVR_IDLE /\ Wake)
  \/ (now = StartTime /\ state = AWAKE_LISTEN /\ TextInput)
  \/ TokenFetched
  \/ SessionCreated
  \/ Greeting
  \/ (AtInstant(CaptureOffsets) /\ CaptureCall)
  \/ FrameCaptured
  \/ FrameTimeout
  \/ CaptureTick
  \/ CaptureToNextTimer

CaptureSpec == Init /\ [][CaptureNext]_vars

----------------------------------------------------------------------------
(* The SlidingWindowCounter(3, 10000) of the front camera, called on its own *)

\* act() on the counter of a camera; the call is recorded in the histories
\* grants and toolResult.
CounterAct(camera) ==
  LET r == counterAct(limiter[camera].timestamps, now)
  IN Becomes([Cur EXCEPT
                !.limiter[camera].timestamps = r.timestamps,
                !.grants[camera] = IF r.ok THEN Append(@, now) ELSE @,
                !.toolResult = [tool |-> "act", camera |-> camera,
                                ok |-> r.ok]])

CounterTick == Tick(CounterOffsets)

CounterNext ==
  \/ CounterAct("front")
  \/ CounterTick

CounterSpec == Init /\ [][CounterNext]_vars

----------------------------------------------------------------------------
(* Tool calls over time: rejections by the capture and the device limits *)

\* A set_device_state tool call of a connected provider; the call and its
\* result are recorded in the history toolResult.
SetDeviceCallBy(p, args) ==
  /\ isConnected(Cur, p)
  /\ LET r == setDeviceState(Cur, args)
     IN Becomes([onToolCallSetDevice(Cur, args, p) EXCEPT
                   !.toolResult = [tool |-> "set_device_state", args |-> args,
                                   ok |-> r.ok, errors |-> r.errors,
                                   state |-> r.state]])

SetDeviceCall(argSet) ==
  \E p \in Providers, args \in argSet : SetDeviceCallBy(p, args)

LimitSetDeviceCall == SetDeviceCall(LimitArgs)

LimitTick == Tick(LimitOffsets)

LimitNext ==
  \/ (now = StartTime /\ state = DVR_IDLE /\ Wake)
  \/ (now = StartTime /\ state = AWAKE_LISTEN /\ TextInput)
  \/ TokenFetched
  \/ SessionCreated
  \/ Greeting
  \/ (AtInstant(LimitCaptureOffsets) /\ CaptureCall)
  \/ (AtInstant(LimitDeviceOffsets) /\ LimitSetDeviceCall)
  \/ FrameCaptured
  \/ LimitTick
  \/ ToNextTimer(LimitOffsets)

LimitSpec == Init /\ [][LimitNext]_vars

----------------------------------------------------------------------------
(* The device state: set_device_state calls over time *)

DeviceSetDeviceCall == SetDeviceCall(DeviceArgs)

DeviceTick == Tick(DeviceOffsets)

DeviceNext ==
  \/ (now = StartTime /\ state = DVR_IDLE /\ Wake)
  \/ (now = StartTime /\ state = AWAKE_LISTEN /\ TextInput)
  \/ TokenFetched
  \/ SessionCreated
  \/ Greeting
  \/ (AtInstant(DeviceOffsets) /\ DeviceSetDeviceCall)
  \/ DeviceTick
  \/ ToNextTimer(DeviceOffsets)

DeviceSpec == Init /\ [][DeviceNext]_vars

----------------------------------------------------------------------------
(* The head pose: set_device_state calls, mood changes and gimbal touches *)

\* wake() from Idle, with the draws of the setMood it may call.
GimbalWake ==
  /\ state = DVR_IDLE
  /\ events < MaxEvents
  /\ WakeOpens => opened < MaxProviders
  /\ \E r \in PoseRandoms : Becomes(onWake(Rand(Input(Cur), r)))

\* A text input while listening, which starts the dialog.
GimbalTextInput ==
  /\ state = AWAKE_LISTEN
  /\ events < MaxEvents
  /\ \E r \in PoseRandoms : Becomes(onTextInput(Rand(Input(Cur), r)))

\* gimbal_touched client message (server) / the UI's gimbal button (local)
GimbalTouch ==
  /\ events < MaxEvents
  /\ \E r \in PoseRandoms :
       Becomes(handleGimbalTouched(Rand(Input(Cur), r)))

GimbalRevert ==
  \E due \in gimbalTimers :
    /\ due <= now
    /\ Becomes(onGimbalRevert(Cur, due))

GimbalSetDeviceCall == SetDeviceCall(GimbalArgs)

GimbalTick == Tick(GimbalOffsets)

GimbalNext ==
  \/ (now = StartTime /\ GimbalWake)
  \/ (now = StartTime /\ GimbalTextInput)
  \/ TokenFetched
  \/ SessionCreated
  \/ Greeting
  \/ (AtInstant(GimbalOffsets) /\ GimbalSetDeviceCall)
  \/ (AtInstant(GimbalOffsets) /\ GimbalTouch)
  \/ GimbalRevert
  \/ GimbalTick
  \/ ToNextTimer(GimbalOffsets)

GimbalSpec == Init /\ [][GimbalNext]_vars

----------------------------------------------------------------------------
(* The location: get_location calls and GPS updates over time *)

\* A get_location tool call of a connected provider; the call and its
\* result are recorded in the history toolResult.
GetLocationCallBy(p, args) ==
  /\ isConnected(Cur, p)
  /\ LET r == getLocation(Cur, args)
     IN Becomes([onToolCallGetLocation(Cur, args, p) EXCEPT
                   !.toolResult = [tool |-> "get_location", args |-> args,
                                   error |-> r.error, coords |-> r.coords,
                                   ts |-> r.ts]])

GetLocationCall ==
  \E p \in Providers, args \in LocationArgs : GetLocationCallBy(p, args)

\* gps_update client message (server) / the UI's GPS controls (local)
GpsUpdate ==
  \E coords \in Coordinates :
    /\ coords # location.gps.coords
    /\ Becomes(updateLocation(Cur, coords))

LocationTick == Tick(LocationOffsets)

LocationNext ==
  \/ (now = StartTime /\ state = DVR_IDLE /\ Wake)
  \/ (now = StartTime /\ state = AWAKE_LISTEN /\ TextInput)
  \/ TokenFetched
  \/ SessionCreated
  \/ Greeting
  \/ (AtInstant(LocationOffsets) /\ GetLocationCall)
  \/ (AtInstant(LocationOffsets) /\ GpsUpdate)
  \/ LocationTick
  \/ ToNextTimer(LocationOffsets)

LocationSpec == Init /\ [][LocationNext]_vars

----------------------------------------------------------------------------
(* The session lifecycle with end_conversation *)

\* An end_conversation tool call of a connected provider; the call, its
\* result and whether the result reached the caller are recorded in the
\* history toolResult.
EndConversationCallBy(p) ==
  /\ events < MaxEvents
  /\ isConnected(Cur, p)
  /\ LET r == endConversationResult(Cur)
         s == onToolCallEndConversation(Input(Cur), p)
     IN Becomes([s EXCEPT
                   !.toolResult = [tool |-> "end_conversation", by |-> p,
                                   ok |-> r.ok, error |-> r.error,
                                   submitted |-> llmConnected(Cur) /\ llm = p,
                                   at |-> now]])

EndConversationCall == \E p \in Providers : EndConversationCallBy(p)

StandbyTimeout ==
  \E due \in standbyTimers :
    /\ due <= now
    /\ Becomes(onStandbyTimeout(Cur, due))

EndNext ==
  \/ Wake
  \/ Sleep
  \/ TextInput
  \/ EndConversationCall
  \/ StandbyTimeout
  \/ AwakeTimeout
  \/ DialogTimeout
  \/ GraceTimeout
  \/ Greeting
  \/ TokenFetched
  \/ TokenFailed
  \/ SessionCreated
  \/ ConnectRejected
  \/ SocketClosed
  \/ TimePasses
  \/ TimeToNextTimer

EndSpec == Init /\ [][EndNext]_vars

\* What happens without any external input: pending timers fire when due,
\* the token fetch and connect() settle, and close events are delivered.
EndProgress ==
  \/ StandbyTimeout
  \/ AwakeTimeout
  \/ DialogTimeout
  \/ GraceTimeout
  \/ Greeting
  \/ TokenFetched
  \/ TokenFailed
  \/ SessionCreated
  \/ ConnectRejected
  \/ SocketClosed
  \/ TimeToNextTimer

\* The same executions, with the timers and completions not postponed for
\* ever.  External inputs stop by themselves, being bounded by MaxEvents.
EndFairSpec == EndSpec /\ WF_vars(EndProgress)

----------------------------------------------------------------------------
(* The session lifecycle with end_conversation and capture_frame calls *)

LifeNext ==
  \/ EndNext
  \/ ToolCallCapture
  \/ FrameCaptured
  \/ FrameTimeout

LifeSpec == Init /\ [][LifeNext]_vars

\* The frame timeout is one more pending timer.
LifeProgress == EndProgress \/ FrameTimeout

LifeFairSpec == LifeSpec /\ WF_vars(LifeProgress)

----------------------------------------------------------------------------
(* Tool calls that executeTool cannot serve, among capture_frame calls *)

\* A tool call of a connected provider with an unknown name or with a
\* camera that is neither front nor rear.
BadToolCallBy(p, call) ==
  /\ isConnected(Cur, p)
  /\ LET r == toolCallResult(Cur, call)
     IN Becomes([onToolCall(Cur, call, p) EXCEPT
                   !.grants["front"] = IF r.granted THEN Append(@, now) ELSE @,
                   !.toolResult = r @@ [args |-> call]])

BadToolCall == \E p \in Providers, call \in BadCalls : BadToolCallBy(p, call)

BadCallTick == Tick(BadCallOffsets)

BadCallNext ==
  \/ (now = StartTime /\ state = DVR_IDLE /\ Wake)
  \/ (now = StartTime /\ state = AWAKE_LISTEN /\ TextInput)
  \/ TokenFetched
  \/ SessionCreated
  \/ Greeting
  \/ (AtInstant(BadCallOffsets) /\ BadToolCall)
  \/ (AtInstant(BadCallOffsets) /\ CaptureCall)
  \/ FrameCaptured
  \/ BadCallTick
  \/ ToNextTimer(BadCallOffsets)

BadCallSpec == Init /\ [][BadCallNext]_vars

----------------------------------------------------------------------------
(* set_device_state calls within and after the volume/brightness cooldown *)

\* A set_device_state call of a connected provider.  The result is recorded
\* in the history toolResult, with the time changedAt of the latest call that
\* changed the volume or the brightness.
CooldownCallBy(p, args) ==
  /\ isConnected(Cur, p)
  /\ LET r == setDeviceState(Cur, args)
         changed == \/ r.s.device.volume # device.volume
                    \/ r.s.device.brightness # device.brightness
     IN Becomes([onToolCallSetDevice(Cur, args, p) EXCEPT
                   !.toolResult =
                      [tool |-> "set_device_state", args |-> args,
                       ok |-> r.ok, errors |-> r.errors, state |-> r.state,
                       changedAt |-> IF changed THEN now
                                     ELSE IF toolResult.tool = "none" THEN Null
                                     ELSE toolResult.changedAt]])

CooldownCall == \E p \in Providers, args \in CooldownArgs : CooldownCallBy(p, args)

CooldownTick == Tick(CooldownOffsets)

CooldownNext ==
  \/ (now = StartTime /\ state = DVR_IDLE /\ Wake)
  \/ (now = StartTime /\ state = AWAKE_LISTEN /\ TextInput)
  \/ TokenFetched
  \/ SessionCreated
  \/ Greeting
  \/ (AtInstant(CooldownOffsets) /\ CooldownCall)
  \/ CooldownTick
  \/ ToNextTimer(CooldownOffsets)

CooldownSpec == Init /\ [][CooldownNext]_vars

----------------------------------------------------------------------------
(* set_device_state calls with a mood *)

MoodSetDeviceCall == SetDeviceCall(MoodArgs)

MoodTick == Tick(MoodOffsets)

MoodNext ==
  \/ (now = StartTime /\ state = DVR_IDLE /\ Wake)
  \/ (now = StartTime /\ state = AWAKE_LISTEN /\ TextInput)
  \/ TokenFetched
  \/ SessionCreated
  \/ Greeting
  \/ (AtInstant(MoodOffsets) /\ MoodSetDeviceCall)
  \/ MoodTick
  \/ ToNextTimer(MoodOffsets)

MoodSpec == Init /\ [][MoodNext]_vars

----------------------------------------------------------------------------
(* Tool calls followed from the announcement to the submitted result *)

\* A tool call of a connected provider.
ToolCallEvent ==
  /\ Len(toolCalls.calls) < MaxCalls
  /\ \E p \in Providers, call \in ResultCalls :
       /\ isConnected(Cur, p)
       /\ Becomes(onToolCallEvent(Cur, call, p))

ResultTick == Tick(ResultOffsets)

\* The session is set up at the start of the run; tool calls follow at the
\* instants of the run, the last of them shortly before the awake window
\* ends, and the timers fire when they are due.
ResultNext ==
  \/ (now = StartTime /\ state = DVR_IDLE /\ Wake)
  \/ TokenFetched
  \/ SessionCreated
  \/ SocketClosed
  \/ Greeting
  \/ (AtInstant(ResultOffsets) /\ ToolCallEvent)
  \/ FrameCaptured
  \/ FrameTimeout
  \/ AwakeTimeout
  \/ ResultTick
  \/ TimeToNextTimer

ResultSpec == Init /\ [][ResultNext]_vars

----------------------------------------------------------------------------
(* IMU events during a session *)

\* imu_event client message (server) / the UI's IMU buttons (local)
IMUEvent(level) ==
  /\ events < MaxEvents
  /\ Becomes(handleIMUEvent(Input(Cur), level))

IMURevert ==
  \E due \in imu.timers :
    /\ due <= now
    /\ Becomes(onIMURevert(Cur, due))

IMUNext ==
  \/ Wake
  \/ TextInput
  \/ ToolCallCapture
  \/ FrameTimeout
  \/ (\E level \in IMULevels : IMUEvent(level))
  \/ IMURevert
  \/ AwakeTimeout
  \/ DialogTimeout
  \/ GraceTimeout
  \/ Greeting
  \/ TokenFetched
  \/ SessionCreated
  \/ SocketClosed
  \/ TimeToNextTimer

IMUSpec == Init /\ [][IMUNext]_vars

----------------------------------------------------------------------------
(* Claims *)

\* The providers holding a socket that is connecting or open, in the
\* current state.
Live == LiveProviders(Cur)

InDialog == state \in {ACTIVE_DIALOG, VISION_CHECK}

\* C1: the state becomes VISION_CHECK only by a step out of ACTIVE_DIALOG, and
\* the state that follows VISION_CHECK is always ACTIVE_DIALOG.
C1_VisionCheckOnlyFromAndToDialog ==
  [][ /\ (state # VISION_CHECK /\ state' = VISION_CHECK) => state = ACTIVE_DIALOG
      /\ (state = VISION_CHECK /\ state' # VISION_CHECK) => state' = ACTIVE_DIALOG
    ]_vars

\* C2: every step into DVR_IDLE leaves no provider connecting or connected
\* and neither the awake timer nor the dialog timer pending.
C2_IdleClosesSessionAndTimers ==
  [][ (state # DVR_IDLE /\ state' = DVR_IDLE)
        => Live' = {} /\ awakeTimer' = Null /\ dialogTimer' = Null ]_vars

\* C3: right after every step into DVR_IDLE, awakeStartTime, dialogStartTime
\* and sessionId are all null.
C3_IdleResetsContext ==
  [][ (state # DVR_IDLE /\ state' = DVR_IDLE)
        => awakeStartTime' = Null /\ dialogStartTime' = Null
           /\ sessionId' = Null ]_vars

\* C4: canUploadData() / isAwake is false exactly in DVR_IDLE and true in
\* AWAKE_LISTEN, ACTIVE_DIALOG and VISION_CHECK, the only states there are.
C4_UploadIffNotIdle ==
  /\ state \in BobiState
  /\ state = DVR_IDLE => ~canUploadData(Cur) /\ ~isAwake(Cur)
  /\ state \in {AWAKE_LISTEN, ACTIVE_DIALOG, VISION_CHECK}
       => canUploadData(Cur) /\ isAwake(Cur)

\* C4 witness: a capture is pending in VISION_CHECK, where upload is allowed.
C4_Witness ==
  state = VISION_CHECK /\ pendingFrames # {} /\ canUploadData(Cur)

\* C5: an expiry of the awake timer in ACTIVE_DIALOG or VISION_CHECK never
\* moves the state to DVR_IDLE.
C5_AwakeTimeoutOnlyEndsListening ==
  [][ (AwakeTimeout /\ InDialog) => state' # DVR_IDLE ]_vars

\* C6: dialogStartTime is not overwritten before DVR_IDLE is entered, and no
\* time passes beyond (first entry into Dialog) + MAX_DIALOG_DURATION_MS
\* without the wrap-up signal having been given.
C6_DialogCapIsAbsolute ==
  [][ /\ (dialogStartTime # Null /\ state' # DVR_IDLE)
           => dialogStartTime' = dialogStartTime
      /\ (firstDialogStart' # Null /\ wrapUps' = 0)
           => now' <= firstDialogStart' + MAX_DIALOG_DURATION_MS
    ]_vars

\* C7: startDialog() out of AWAKE_LISTEN enters ACTIVE_DIALOG with the dialog
\* timer armed for the full cap; the expiry of the dialog timer leaves the
\* state as it is, gives the wrap-up signal and schedules the return to
\* DVR_IDLE exactly WRAP_UP_GRACE_MS later; that scheduled step enters
\* DVR_IDLE, so that no dialog outlives its wrap-up by more than the grace.
C7_WrapUpThenGraceThenIdle ==
  [][ /\ (TextInput /\ state = AWAKE_LISTEN)
           => /\ state' = ACTIVE_DIALOG
              /\ dialogTimer' = now + MAX_DIALOG_DURATION_MS
      /\ DialogTimeout
           => /\ state' = state
              /\ wrapUps' = wrapUps + 1
              /\ lastWrapUp' = now
              /\ graceTimers' = graceTimers \cup {now + WRAP_UP_GRACE_MS}
      /\ GraceTimeout => state' = DVR_IDLE
      /\ (wrapUps' > 0 /\ state' # DVR_IDLE)
           => now' <= lastWrapUp' + WRAP_UP_GRACE_MS
    ]_vars

\* C7 witness: the wrap-up signal was given at the cap, 5 s have passed, the
\* state is still ACTIVE_DIALOG and the scheduled return to DVR_IDLE is due.
C7_Witness ==
  /\ state = ACTIVE_DIALOG
  /\ wrapUps = 1
  /\ lastWrapUp = firstDialogStart + MAX_DIALOG_DURATION_MS
  /\ now = lastWrapUp + WRAP_UP_GRACE_MS
  /\ now \in graceTimers

\* C8: wake() in a state other than DVR_IDLE leaves the state unchanged,
\* schedules nothing that changes it, and resets the awake timer to the
\* full awake window.
C8_RewakeKeepsStateResetsTimer ==
  [][ (Wake /\ state # DVR_IDLE)
        => /\ state' = state
           /\ greetTimers' = greetTimers
           /\ awakeTimer' = now + AWAKE_WINDOW_MS ]_vars

\* C9 (server build, the StateMachine the claim cites): wake() in DVR_IDLE
\* enters AWAKE_LISTEN in the same step with awakeStartTime set, the happy
\* expression, the awake timer armed for the full window and exactly one
\* provider opened; no other step of the server build opens a provider.
C9_WakeFromIdle ==
  [][ build = "server"
        => /\ (Wake /\ state = DVR_IDLE)
                => /\ state' = AWAKE_LISTEN
                   /\ awakeStartTime' = now
                   /\ mood' = "happy"
                   /\ awakeTimer' = now + AWAKE_WINDOW_MS
                   /\ opened' = opened + 1
                   /\ llm' = opened'
                   /\ prov'[llm'] = "connecting"
           /\ opened' # opened => (Wake /\ state = DVR_IDLE)
    ]_vars

\* C9 witness: the server build right after a wake() out of DVR_IDLE.
C9_Witness ==
  /\ build = "server"
  /\ state = AWAKE_LISTEN
  /\ awakeStartTime = now
  /\ awakeTimer = now + AWAKE_WINDOW_MS
  /\ mood = "happy"
  /\ opened = 1
  /\ llm = 1
  /\ prov[1] = "connecting"

\* C10: at most one provider is connecting or connected at any time, and
\* llm is never given another provider while the one it held is still
\* connecting or connected.
C10_AtMostOneSession ==
  [][ /\ Cardinality(Live') <= 1
      /\ (llm # Null /\ llm' # llm) => prov'[llm] \notin {"connecting", "connected"}
    ]_vars

\* C11: a timer armed before an entry into DVR_IDLE never acts on a later
\* session.  The awake and dialog timers are cleared by that entry; no
\* wrap-up has been given in the session that a later wake() started
\* (lastWrapUp is null), so a grace callback that runs there was armed
\* before the entry, and it must change neither the state nor the provider.
C11_IdleInvalidatesTimers ==
  [][ /\ (state # DVR_IDLE /\ state' = DVR_IDLE)
           => awakeTimer' = Null /\ dialogTimer' = Null
      /\ (GraceTimeout /\ state # DVR_IDLE /\ lastWrapUp = Null)
           => state' = state /\ llm' = llm /\ Live' = Live
    ]_vars

\* The ids of the frame requests that are pending.
PendingIds == {f.id : f \in pendingFrames}

\* C12: every frame request made so far is either pending and unresolved or
\* not pending and resolved exactly once; a pending request has its timeout
\* armed and not overdue; a step resolves at most one request, one that was
\* pending, and a fulfilment or timeout for a request that is not pending
\* resolves nothing.
C12_FrameResolvedOnce ==
  [][ /\ \A id \in 1..frameRequestId' :
           /\ resolved'[id] <= 1
           /\ resolved'[id] = 0 <=> id \in PendingIds'
      /\ \A f \in pendingFrames' :
           \E tm \in frameTimers' : tm.id = f.id /\ now' <= tm.due
      /\ \A id \in 1..frameRequestId :
           resolved'[id] # resolved[id]
             => /\ id \in PendingIds
                /\ id \notin PendingIds'
                /\ \A other \in 1..frameRequestId :
                     other # id => resolved'[other] = resolved[other]
    ]_vars

\* C12 witness: two requests were made and both are resolved, one by its
\* fulfilment (its timeout is still to run and will find nothing) and one
\* whose timeout has run.
C12_Witness ==
  /\ frameRequestId >= 2
  /\ pendingFrames = {}
  /\ \E a, b \in 1..frameRequestId :
       /\ resolved[a] = 1
       /\ resolved[b] = 1
       /\ \E tm \in frameTimers : tm.id = a
       /\ ~\E tm \in frameTimers : tm.id = b

\* C13: no tool result is sent to an LLM for a tool call whose provider was
\* already closed when the result was ready.
C13_LateResultsDiscarded == \A m \in sent : ~m.late

\* The error capture_frame returns on a tool call in the current state.
CaptureError(camera) ==
  captureChecks(IF build = "server" THEN enterVisionCheck(Cur)
                ELSE setState(Cur, VISION_CHECK), camera).error

\* C14: a capture_frame tool call in DVR_IDLE returns the DVR-mode error,
\* leaves the cooldown and the counter of the camera unconsumed, makes no
\* frame request and leaves the state DVR_IDLE.
C14_CaptureInIdleRejected ==
  [][ \A p \in Providers, camera \in Cameras :
        ( /\ state = DVR_IDLE
          /\ events < MaxEvents
          /\ isConnected(Cur, p)
          /\ Becomes(onToolCallCapture(Input(Cur), camera, p)) )
        => /\ CaptureError(camera) = "dvr"
           /\ state' = DVR_IDLE
           /\ limiter'[camera].lastAction = limiter[camera].lastAction
           /\ limiter'[camera].timestamps =
                cleanup(limiter[camera].timestamps, now)
           /\ frameRequestId' = frameRequestId
           /\ pendingFrames' = pendingFrames
    ]_vars

\* The grants of one camera are at least the cooldown apart, and any four
\* consecutive ones span at least the window.
GrantsSpaced(g) ==
  /\ \A i \in 1..(Len(g) - 1) : g[i + 1] - g[i] >= CAPTURE_COOLDOWN_MS
  /\ \A i \in 1..(Len(g) - CAPTURE_MAX_PER_10S) :
       g[i + CAPTURE_MAX_PER_10S] - g[i] >= CAPTURE_WINDOW_MS

\* C15: per camera, a capture_frame call in a non-Idle state with the
\* cooldown elapsed and room in the window is granted and issues a pending
\* frame request; a call less than 800 ms after the latest grant on that
\* camera issues no request and (server registry) returns the cooldown
\* error; granted captures on one camera are at least 800 ms apart and at
\* most 3 in any 10 s window; a call on one camera leaves the limiter of the
\* other camera, and so its eligibility, as it was.
C15_CaptureCooldownAndWindow ==
  [][ \A p \in Providers, camera \in Cameras :
        CaptureCallBy(p, camera) =>
          LET last == limiter[camera].lastAction
              inWindow == Len(cleanup(limiter[camera].timestamps, now))
          IN /\ ( /\ state # DVR_IDLE
                  /\ now - last >= CAPTURE_COOLDOWN_MS
                  /\ inWindow < CAPTURE_MAX_PER_10S )
                => /\ frameRequestId' = frameRequestId + 1
                   /\ frameRequestId' \in {f.id : f \in pendingFrames'}
                   /\ toolResult'.granted
             /\ now - last < CAPTURE_COOLDOWN_MS
                => /\ frameRequestId' = frameRequestId
                   /\ pendingFrames' \subseteq pendingFrames
                   /\ ~toolResult'.granted
                   /\ build = "server" => toolResult'.error = "cooldown"
             /\ GrantsSpaced(grants'[camera])
             /\ \A other \in Cameras \ {camera} :
                  /\ limiter'[other] = limiter[other]
                  /\ grants'[other] = grants[other]
    ]_vars

\* Two calls on one camera in the same 800 ms: the first is pending, the
\* second was refused by the cooldown.
C15_Witness ==
  /\ build = "server"
  /\ toolResult.tool = "capture_frame"
  /\ ~toolResult.granted
  /\ toolResult.error = "cooldown"
  /\ Len(grants[toolResult.camera]) = 1
  /\ pendingFrames # {}

\* The timestamps of a counter that are inside the window at time t.
InWindow(timestamps, t) ==
  {i \in 1..Len(timestamps) : t - timestamps[i] < CAPTURE_WINDOW_MS}

\* C16: a capture_frame call made while the camera's cooldown is active or
\* its window is full returns an error, leaves the cooldown's last-action
\* time and the counter's timestamps as they were and makes no frame
\* request; a set_device_state call made while the device cooldown is
\* active names each field it asks to change in its error, leaves that
\* field at its value and leaves the cooldown's last-action time as it was.
C16_RejectionConsumesNothing ==
  [][ /\ \A p \in Providers, camera \in Cameras :
          ( /\ CaptureCallBy(p, camera)
            /\ \/ now - limiter[camera].lastAction < CAPTURE_COOLDOWN_MS
               \/ Cardinality(InWindow(limiter[camera].timestamps, now))
                    >= CAPTURE_MAX_PER_10S )
          => /\ ~toolResult'.granted
             /\ toolResult'.error # "none"
             /\ build = "server" => toolResult'.error \in {"cooldown", "window"}
             /\ limiter' = limiter
             /\ frameRequestId' = frameRequestId
             /\ pendingFrames' = pendingFrames
             /\ frameTimers' = frameTimers
      /\ \A p \in Providers, args \in LimitArgs :
          ( /\ SetDeviceCallBy(p, args)
            /\ now - device.lastAction < VOLUME_BRIGHTNESS_COOLDOWN_MS )
          => /\ device'.lastAction = device.lastAction
             /\ \A f \in {"volume", "brightness"} :
                  (f \in DOMAIN args /\ args[f] # device[f])
                  => /\ device'[f] = device[f]
                     /\ f \in toolResult'.errors
                     /\ ~toolResult'.ok
    ]_vars

\* A fourth capture on a camera was refused because its window is full, in
\* a run in which set_device_state was refused a volume change.
C16_Witness ==
  /\ toolResult.tool = "capture_frame"
  /\ ~toolResult.granted
  /\ Len(grants[toolResult.camera]) = CAPTURE_MAX_PER_10S
  /\ now - limiter[toolResult.camera].lastAction >= CAPTURE_COOLDOWN_MS
  /\ device.lastAction # 0
  /\ device.volume = 65
  /\ device.brightness = 70

\* C17: act() on a counter with fewer than 3 timestamps inside the window
\* returns true and records the call; with 3 inside the window it returns
\* false and records nothing; once 10000 ms have passed since the oldest
\* recorded act it returns true again; so no 4 successful calls lie in a
\* half-open interval of 10000 ms.
C17_SlidingWindowCounter ==
  [][ \A camera \in Cameras :
        CounterAct(camera) =>
          LET ts == limiter[camera].timestamps
              ts1 == limiter'[camera].timestamps
              g == grants'[camera]
          IN /\ Cardinality(InWindow(ts, now)) < CAPTURE_MAX_PER_10S
                => /\ toolResult'.ok
                   /\ Len(ts1) = Cardinality(InWindow(ts, now)) + 1
                   /\ ts1[Len(ts1)] = now
             /\ Cardinality(InWindow(ts, now)) >= CAPTURE_MAX_PER_10S
                => /\ ~toolResult'.ok
                   /\ ts1 = ts
             /\ (ts # << >> /\ now - ts[1] >= CAPTURE_WINDOW_MS)
                => toolResult'.ok
             /\ \A i \in 1..(Len(g) - CAPTURE_MAX_PER_10S) :
                  g[i + CAPTURE_MAX_PER_10S] - g[i] >= CAPTURE_WINDOW_MS
    ]_vars

\* Three calls succeeded, a fourth was refused 1 ms before the end of the
\* window of the first, and a call at the end of that window succeeded.
C17_Witness ==
  \E camera \in Cameras :
    /\ toolResult = [tool |-> "act", camera |-> camera, ok |-> TRUE]
    /\ Len(grants[camera]) = CAPTURE_MAX_PER_10S + 1
    /\ now - grants[camera][1] = CAPTURE_WINDOW_MS
    /\ Len(limiter[camera].timestamps) = CAPTURE_MAX_PER_10S

\* x limited to lo..hi
Limited(x, lo, hi) == IF x < lo THEN lo ELSE IF x > hi THEN hi ELSE x

Levels == {"volume", "brightness"}

\* C18: a set_device_state call made when the device cooldown has elapsed
\* sets volume, for a target t and current value v, to
\* v + (t - v limited to -15..15), limited to 0..100, and brightness by the
\* same formula; neither changes by more than 15 in one call.
C18_DeltaClamp ==
  [][ \A p \in Providers, args \in DeviceArgs :
        ( /\ SetDeviceCallBy(p, args)
          /\ now - device.lastAction >= VOLUME_BRIGHTNESS_COOLDOWN_MS )
        => \A f \in Levels \cap DOMAIN args :
             LET v == device[f]
                 step == Limited(args[f] - v, -VOLUME_BRIGHTNESS_MAX_DELTA,
                                 VOLUME_BRIGHTNESS_MAX_DELTA)
             IN /\ device'[f] = Limited(v + step, 0, 100)
                /\ device'[f] - v <= VOLUME_BRIGHTNESS_MAX_DELTA
                /\ v - device'[f] <= VOLUME_BRIGHTNESS_MAX_DELTA
    ]_vars

\* A call with volume 100 at volume 50 was accepted and left volume at 65.
C18_Witness ==
  /\ toolResult.tool = "set_device_state"
  /\ "volume" \in DOMAIN toolResult.args
  /\ toolResult.args.volume = 100
  /\ toolResult.ok
  /\ device.lastAction = now
  /\ device.volume = 65

\* C19: a set_device_state call in which the cooldown rejects volume and/or
\* brightness still applies its expression and its (clamped) head pose; its
\* result names exactly the rejected fields, has ok exactly when none was
\* rejected, and carries the whole device state after the call.
C19_PartialFailure ==
  [][ \A p \in Providers, args \in DeviceArgs :
        SetDeviceCallBy(p, args) =>
          LET rejected ==
                {f \in Levels \cap DOMAIN args :
                   /\ now - device.lastAction < VOLUME_BRIGHTNESS_COOLDOWN_MS
                   /\ args[f] # device[f]}
              expression == IF build = "server" THEN mood
                            ELSE device.expression
              result == toolResult'
          IN /\ result.errors = rejected
             /\ result.ok <=> rejected = {}
             /\ "expression" \in DOMAIN args
                => expression' = IF build = "server" THEN args.expression
                                 ELSE << args.expression >>
             /\ "headPose" \in DOMAIN args
                => /\ "yaw" \in DOMAIN args.headPose
                      => device'.headPose.yaw
                           = Limited(args.headPose.yaw, -MAX_YAW, MAX_YAW)
                   /\ "pitch" \in DOMAIN args.headPose
                      => device'.headPose.pitch
                           = Limited(args.headPose.pitch, -MAX_PITCH, MAX_PITCH)
                   /\ ("roll" \in DOMAIN args.headPose /\ build = "local")
                      => device'.headPose.roll
                           = Limited(args.headPose.roll, -MAX_ROLL, MAX_ROLL)
             /\ result.state.volume = device'.volume
             /\ result.state.brightness = device'.brightness
             /\ result.state.headPose = device'.headPose
             /\ result.state.expression = expression'
    ]_vars

\* A call was refused its volume and its brightness and moved the head.
C19_Witness ==
  /\ toolResult.tool = "set_device_state"
  /\ ~toolResult.ok
  /\ toolResult.errors = {"volume", "brightness"}
  /\ "headPose" \in DOMAIN toolResult.args
  /\ device.headPose.yaw = MAX_YAW
  /\ device.headPose.pitch = -MAX_PITCH
  /\ device.lastAction = now

\* C20: in every reachable state the head pose has its yaw in -45..45, its
\* pitch in -30..30 and its roll (local build; the server's pose has none)
\* in -30..30.
C20_HeadPoseInRange ==
  /\ device.headPose.yaw \in -MAX_YAW..MAX_YAW
  /\ device.headPose.pitch \in -MAX_PITCH..MAX_PITCH
  /\ "roll" \in DOMAIN device.headPose
     => device.headPose.roll \in -MAX_ROLL..MAX_ROLL

C22_UpdateInvalidatesCache ==
  [][\A p \in Providers, args \in LocationArgs :
       (GetLocationCallBy(p, args) /\ toolResult'.error = "none")
         => toolResult'.coords = location.gps.coords]_vars

\* C23: a failure to open the LLM session (the token fetch fails, or
\* connect() rejects on a socket error or on its timeout) leaves the state as
\* it is, so Listening stays Listening and is not rolled back to Idle, and
\* sets the realtime status to "error"; in Listening the awake timer is then
\* pending, due within the awake window, and its expiry in Listening leads
\* to Idle.
C23_ConnectFailure ==
  [][/\ (TokenFailed \/ ConnectRejected)
          => /\ state' = state
             /\ realtimeStatus' = "error"
             /\ state = AWAKE_LISTEN
                  => /\ awakeTimer' # Null
                     /\ awakeTimer' <= now + AWAKE_WINDOW_MS
     /\ (AwakeTimeout /\ state = AWAKE_LISTEN) => state' = DVR_IDLE]_vars

\* The session failed to open in Listening, nothing else happened since the
\* wake-up, and the awake timer is due.
C23_Witness ==
  /\ state = AWAKE_LISTEN
  /\ realtimeStatus = "error"
  /\ Live = {}
  /\ events = 1
  /\ awakeTimer = now

\* C24: an end_conversation tool call is answered at once with an ok result
\* that reaches the calling provider, and standby is scheduled 5 s later;
\* when that delay expires the system is in standby: Listening, no LLM
\* session left open, awake and dialog timers cleared.
C24_EndConversation ==
  [][/\ \A p \in Providers :
          EndConversationCallBy(p)
            => /\ toolResult'.ok
               /\ toolResult'.submitted
               /\ now + STANDBY_DELAY_MS \in standbyTimers'
     /\ StandbyTimeout
          => /\ state' = AWAKE_LISTEN
             /\ Live' = {}
             /\ llm' = Null
             /\ awakeTimer' = Null
             /\ dialogTimer' = Null]_vars

\* C25: an IMU event of level L2 sets the expression to concerned, saves
\* the event clips exactly once and, whenever the LLM session is connected,
\* sends one prompt to the LLM, in whatever state the event arrives: no
\* dialog needs to be active.
C25_SevereIMUEvent ==
  [][IMUEvent("L2")
       => /\ (IF build = "server" THEN mood' ELSE device'.expression[1])
               = "concerned"
          /\ imu'.clips = imu.clips + 1
          /\ imu'.prompts = imu.prompts + (IF llmConnected(Cur) THEN 1 ELSE 0)
    ]_vars

\* An L2 event right after the wake-up, in Listening with the session open:
\* the clip is saved and the prompt sent although no dialog has started.
C25_Witness ==
  /\ state = AWAKE_LISTEN
  /\ events = 2
  /\ imu.clips = 1
  /\ imu.prompts = 1
  /\ (IF build = "server" THEN mood ELSE device.expression[1]) = "concerned"

\* C26: a tool call with an unknown name or with a camera that is neither
\* front nor rear is answered with an error, and leaves the rate limiters,
\* the device state and the outstanding frame requests as they are.
C26_BadCallIsInert ==
  [][\A p \in Providers, call \in BadCalls :
       BadToolCallBy(p, call)
         => /\ toolResult'.error # "none"
            /\ limiter' = limiter
            /\ device' = device
            /\ mood' = mood
            /\ pendingFrames' = pendingFrames
            /\ frameTimers' = frameTimers]_vars

\* The standby variant of Listening that end_conversation leads to.
Standby ==
  /\ state = AWAKE_LISTEN
  /\ toolResult.tool = "end_conversation"
  /\ awakeTimer = Null
  /\ dialogTimer = Null

\* C27: once the external inputs have stopped and the pending timers have
\* fired, the system is for ever in Idle, or in standby after an
\* end_conversation, with no LLM session open.
C27_EventuallyIdle == <>[](Live = {} /\ (state = DVR_IDLE \/ Standby))

\* C28: every step that takes the state out of Idle is a wake() and leads
\* to Listening; text input, tool calls, their late completions and the
\* expiry of timers leave the state Idle.
C28_IdleLeftOnlyByWake ==
  [][(state = DVR_IDLE /\ state' # DVR_IDLE)
       => (Wake /\ state' = AWAKE_LISTEN)]_vars

\* C29: whenever the state is Idle, no LLM session is connected or being
\* connected and no session id is set, in every interleaving of sleep() and
\* the timers with the token fetch and connect() that wake() started.
C29_NoSessionInIdle ==
  state = DVR_IDLE => (Live = {} /\ sessionId = Null)

\* C30: whenever the state is VisionCheck, it is Dialog at some later time.
C30_VisionCheckReturnsToDialog ==
  (state = VISION_CHECK) ~> (state = ACTIVE_DIALOG)

\* C31: the state is VisionCheck for as long as a camera-frame tool call is
\* outstanding in a live session: when two capture_frame calls overlap and
\* one of them completes while the other is still pending in the connected
\* session, the state remains VISION_CHECK.
C31_VisionCheckWhilePending ==
  [][(/\ state = VISION_CHECK
      /\ pendingFrames' # {}
      /\ pendingFrames' \subseteq pendingFrames
      /\ pendingFrames' # pendingFrames
      /\ \A f \in pendingFrames' : prov'[f.by] = "connected" /\ llm' = f.by)
       => state' = VISION_CHECK]_vars

\* Whether the handler of call c still awaits its camera frame.
AwaitsFrame(c) == \E f \in pendingFrames : toolCalls.frameCall[f.id] = c

\* Call c of a session that is still connected is either running, with its
\* pending entry and no result yet, or completed, with exactly one
\* function_call_output sent and its pending entry removed.
AnsweredOnce(c) ==
  LET by == toolCalls.calls[c].by
      entry == [id |-> c, by |-> by]
  IN isConnected(Cur, by) =>
       IF AwaitsFrame(c)
         THEN toolCalls.calls[c].outputs = 0 /\ entry \in toolCalls.pending
         ELSE toolCalls.calls[c].outputs = 1 /\ entry \notin toolCalls.pending

\* C32: every tool call that completes while its LLM session is still
\* connected has exactly one function-call result with its call id
\* submitted to that session, and its pending-tool-call entry is then
\* removed, whatever the order in which overlapping calls complete.
C32_OneResultPerCall ==
  \A c \in 1..Len(toolCalls.calls) : AnsweredOnce(c)

\* C33: a set_device_state call with a mood m sets deviceState.mood to m,
\* the expression to one of the variants m_0..m_2 and the head pose to one of
\* the predefined poses of m, for every mood of the tool's schema and at any
\* time (mood changes are not rate-limited).
C33_MoodArgument ==
  [][\A p \in Providers, args \in MoodArgs :
       (build = "local" /\ SetDeviceCallBy(p, args))
         => /\ mood' = args.mood
            /\ device'.expression \in {<< args.mood, v >> : v \in 0..2}
            /\ \E i \in 1..3 :
                 device'.headPose = MOOD_HEAD_POSES[args.mood][i]]_vars

\* C34: volume and brightness share one cooldown.  After a set_device_state
\* call that changed the volume or the brightness at time changedAt, a call
\* before changedAt + VOLUME_BRIGHTNESS_COOLDOWN_MS that asks for another
\* volume, or for another brightness, is rejected for that field and leaves
\* it unchanged, whichever of the two fields was changed before; a request
\* for the current value of a field is never reported as an error.
C34_SharedCooldown ==
  [][\A p \in Providers, args \in CooldownArgs :
       CooldownCallBy(p, args)
         => /\ (/\ toolResult.tool = "set_device_state"
                 /\ toolResult.changedAt # Null
                 /\ now < toolResult.changedAt + VOLUME_BRIGHTNESS_COOLDOWN_MS)
                => /\ (has(args, "volume") /\ args.volume # device.volume)
                       => /\ "volume" \in toolResult'.errors
                          /\ device'.volume = device.volume
                   /\ (has(args, "brightness")
                          /\ args.brightness # device.brightness)
                       => /\ "brightness" \in toolResult'.errors
                          /\ device'.brightness = device.brightness
            /\ (has(args, "volume") /\ args.volume = device.volume)
                 => "volume" \notin toolResult'.errors
            /\ (has(args, "brightness") /\ args.brightness = device.brightness)
                 => "brightness" \notin toolResult'.errors]_vars

\* A brightness request is rejected 200 ms after a call that changed the
\* volume only.
C34_Witness ==
  /\ toolResult.tool = "set_device_state"
  /\ toolResult.args = [brightness |-> 60]
  /\ toolResult.errors = {"brightness"}
  /\ toolResult.changedAt = StartTime
  /\ now = StartTime + 200
  /\ device.volume = 60
  /\ device.brightness = 70

\* C35: in a non-Idle state get_location(freshnessMs) returns the cached
\* location when one was cached less than freshnessMs ago (LOCATION_CACHE_MS
\* without the argument) and leaves the cache as it is; otherwise it returns
\* the current GPS value and stores it in the cache; in Idle it returns an
\* error and leaves the cache unchanged.
C35_GetLocation ==
  [][\A p \in Providers, args \in LocationArgs :
       GetLocationCallBy(p, args)
         => LET cache == location.cache
                freshnessMs == orElse(args, "freshnessMs", LOCATION_CACHE_MS)
            IN IF state = DVR_IDLE
                 THEN toolResult'.error # "none" /\ location' = location
               ELSE IF cache.valid /\ now - cache.timestamp < freshnessMs
                 THEN /\ toolResult'.error = "none"
                      /\ toolResult'.coords = cache.coords
                      /\ toolResult'.ts = cache.ts
                      /\ location'.cache = cache
               ELSE /\ toolResult'.error = "none"
                    /\ toolResult'.coords = location.gps.coords
                    /\ location'.cache.valid
                    /\ location'.cache.coords = location.gps.coords
                    /\ location'.cache.timestamp = now]_vars

\* A step that is a call of recordInteraction() and nothing else that changes
\* the state: an audio chunk, or a text input in Idle on the server, where
\* startDialog() returns at once.
RecordsInteraction ==
  AudioChunk \/ (build = "server" /\ state = DVR_IDLE /\ TextInput)

\* C36: recordInteraction() in Listening restarts the awake timer with the
\* full awake window; in Dialog it refreshes the awake-grace timestamp
\* awakeStartTime and leaves the dialog timer and every other timer as they
\* are; in Idle it arms no timer and the state stays Idle.
C36_RecordInteraction ==
  [][/\ (RecordsInteraction /\ state = AWAKE_LISTEN)
          => /\ state' = AWAKE_LISTEN
             /\ awakeTimer' = now + AWAKE_WINDOW_MS
     /\ (RecordsInteraction /\ state = ACTIVE_DIALOG)
          => /\ state' = ACTIVE_DIALOG
             /\ awakeStartTime' = now
             /\ dialogTimer' = dialogTimer
             /\ awakeTimer' = awakeTimer
             /\ graceTimers' = graceTimers
     /\ (RecordsInteraction /\ state = DVR_IDLE)
          => /\ state' = DVR_IDLE
             /\ awakeTimer' = awakeTimer
             /\ dialogTimer' = dialogTimer
             /\ graceTimers' = graceTimers]_vars

\* C37: the whole SessionContext is reset on entering Idle: right after a
\* step into DVR_IDLE, lastInteractionTime is null, and so are awakeStartTime,
\* dialogStartTime and sessionId.
C37_IdleResetsLastInteraction ==
  [][(state # DVR_IDLE /\ state' = DVR_IDLE)
       => /\ lastInteractionTime' = Null
          /\ awakeStartTime' = Null
          /\ dialogStartTime' = Null
          /\ sessionId' = Null]_vars

\* C38: whenever the state is Dialog, dialogStartTime is set and a timer that
\* ends the dialog is pending, the dialog timer or the grace timer after the
\* wrap-up, on every path into Dialog, the exit from a VisionCheck that a
\* tool call entered from Listening included.
C38_DialogHasTimer ==
  state = ACTIVE_DIALOG
    => /\ dialogStartTime # Null
       /\ (dialogTimer # Null \/ graceTimers # {})

\* C39: within one dialog, from the entry into Dialog to the next entry into
\* Idle, the dialogTimeout handler runs at most once: it gives the wrap-up
\* instruction and schedules the grace timer once, even if a text or speech
\* input calls startDialog() again after the dialog cap was reached.
C39_WrapUpAtMostOnce == wrapUps <= 1

============================================================================
